---- MODULE Spec2Model ----
(***************************************************************************)
(* Model of raspberry-pi-project/main.py: the relay between web clients    *)
(* and one upstream Gemini Live session.  Every asyncio task is a process  *)
(* whose steps run from one suspension point (an await that can suspend)   *)
(* to the next; what lies between two suspension points is one action.     *)
(*   gemini_processor            mpc  (Session Manager)                    *)
(*   forward_text_to_gemini      fpc  (outbound relay)                     *)
(*   receive_from_gemini         rpc  (inbound dispatch, tool dispatch)    *)
(*   rpi_websocket_handler       cstate[c]  (one per client connection)    *)
(*   broadcast_gemini_responses  bpc                                       *)
(* asyncio.Queue.put on an unbounded queue never suspends.                 *)
(***************************************************************************)
EXTENDS Integers, Sequences, FiniteSets, TLC

\* ------------------------------------------------------------- bounds
\* Number of client connections that may ever be accepted.
NumClients == 2
\* Number of freeform text frames the clients send in total.
MaxTexts == 2
\* Number of upstream-side faults (refused connect, failed handshake,
\* connection closed by the peer, failed send).
MaxFaults == 2
\* Number of frames the upstream sends during Ready sessions.
MaxFrames == 2

ClientIds == 1..NumClients
TextIds == 1..MaxTexts

VARIABLES
    apiKeySet,      \* GEMINI_API_KEY differs from the placeholder
    mpc,            \* gemini_processor: where it is suspended
    handle,         \* gemini_websocket_connection is not None
    connOpen,       \* gemini_websocket_connection.state == State.OPEN
    fpc,            \* forward_text_to_gemini: "idle" | "get" | "done"
    rpc,            \* receive_from_gemini: "idle" | "recv" | "done"
    rEnd,           \* why receive_from_gemini left its loop
    waited,         \* sleep(5) calls of gemini_processor that returned
                    \* since its last websockets.connect call
    outq,           \* web_text_to_gemini_queue (text ids)
    inq,            \* gemini_to_web_queue (messages for the clients)
    nextText,       \* id of the next text frame a client sends
    textBy,         \* which client sent each text (0: not sent yet)
    faults,         \* upstream faults left
    frames,         \* upstream frames left
    cstate,         \* per client: "absent" | "open" | "closed" | "gone"
    clients,        \* connected_web_clients
    bpc,            \* broadcast task: "get" | "sending" | "dead"
    bmsg,           \* message_to_broadcast_json
    bsnap,          \* active_clients (the snapshot)
    bpending,       \* sends of the gather still running
    bdelivered,     \* clients the current message was written to
    recvd,          \* per client: the messages it received, in order
    upTexts,        \* text ids written to the upstream, in order
    upKinds,        \* <<kind, mpc>> of every realtimeInput written upstream
    userAudioActive,\* user_audio_session_active
    lastIn,         \* the last frame a client handler took and what it did
    servoAngle,     \* current_servo_angle
    lastTool,       \* the last toolCall frame processed and what came of it
    dispatching,    \* toolCall frames whose gateway calls are running
    vpc,            \* stream_video_to_gemini: "start" | "loop"
    picam2,         \* picam2: "none" | "started"
    lastTick,       \* the last round of the video loop and what it did
    accumulated_transcription_for_oled
                    \* the sizes of the fragments it is the concatenation of

vars == << apiKeySet, mpc, handle, connOpen, fpc, rpc, rEnd, waited, outq, inq,
           nextText, textBy, faults, frames, cstate, clients, bpc, bmsg,
           bsnap, bpending, bdelivered, recvd, upTexts, upKinds,
           userAudioActive, lastIn, servoAngle, lastTool, dispatching, vpc,
           picam2, lastTick, accumulated_transcription_for_oled >>

sessionVars == << apiKeySet, mpc, handle, connOpen, fpc, rpc, rEnd, waited >>
clientVars == << cstate, clients, nextText, textBy, userAudioActive, lastIn >>
bcastVars == << bpc, bmsg, bsnap, bpending, bdelivered, recvd >>
toolVars == << servoAngle, lastTool >>
videoVars == << vpc, picam2, lastTick >>
loopVars == << dispatching, accumulated_transcription_for_oled >>

Range(s) == { s[i] : i \in 1..Len(s) }


\* ------------------------------------------------- JSON values of tool args
\* A value of an args map: k is its JSON type ("absent": the key is missing,
\* "null": JSON null), s its characters when a string, n its number when an
\* integer or the number of notes when a list, b its truth value when a bool.
AbsentV == [k |-> "absent", s |-> << >>, n |-> 0, b |-> FALSE]
NullV == [k |-> "null", s |-> << >>, n |-> 0, b |-> FALSE]
StrV(chars) == [k |-> "str", s |-> chars, n |-> 0, b |-> FALSE]
IntV(i) == [k |-> "int", s |-> << >>, n |-> i, b |-> FALSE]
BoolV(t) == [k |-> "bool", s |-> << >>, n |-> 0, b |-> t]
ListV(len) == [k |-> "list", s |-> << >>, n |-> len, b |-> FALSE]

\* Python's "v is None": dict.get of a missing key and JSON null both give None.
IsNone(v) == v.k \in {"absent", "null"}

\* Python's truth value of v ("if direction:", "if melody_name:", "if state:").
Truthy(v) ==
    CASE v.k = "str" -> v.s # << >>
      [] v.k = "int" -> v.n # 0
      [] v.k = "bool" -> v.b
      [] v.k = "list" -> v.n > 0
      [] OTHER -> FALSE

UpperToLower == [A |-> "a", B |-> "b", C |-> "c", D |-> "d", E |-> "e", F |-> "f", G |-> "g", H |-> "h", I |-> "i", J |-> "j", K |-> "k", L |-> "l", M |-> "m", N |-> "n", O |-> "o", P |-> "p", Q |-> "q", R |-> "r", S |-> "s", T |-> "t", U |-> "u", V |-> "v", W |-> "w", X |-> "x", Y |-> "y", Z |-> "z"]

\* str.lower() on one character and on a string.
LowerChar(c) == IF c \in DOMAIN UpperToLower THEN UpperToLower[c] ELSE c
Lower(chars) == [i \in 1..Len(chars) |-> LowerChar(chars[i])]

\* str.replace(old, new) for a one-character old.
Replace(chars, old, new) ==
    [i \in 1..Len(chars) |-> IF chars[i] = old THEN new ELSE chars[i]]

Digits == {"0", "1", "2", "3", "4", "5", "6", "7", "8", "9"}
DigitVal(c) == CHOOSE d \in 0..9 : <<"0","1","2","3","4","5","6","7","8","9">>[d + 1] = c

RECURSIVE DigitsVal(_)
DigitsVal(chars) ==
    IF chars = << >> THEN 0
    ELSE 10 * DigitsVal(SubSeq(chars, 1, Len(chars) - 1)) + DigitVal(chars[Len(chars)])

\* int(v): [ok, n].  An int is itself, a string of digits parses, any other
\* string raises ValueError and a list raises TypeError (ok = FALSE).
ToInt(v) ==
    CASE v.k = "int" -> [ok |-> TRUE, n |-> v.n]
      [] v.k = "bool" -> [ok |-> TRUE, n |-> IF v.b THEN 1 ELSE 0]
      [] v.k = "str" /\ v.s # << >> /\ (\A i \in 1..Len(v.s) : v.s[i] \in Digits) ->
            [ok |-> TRUE, n |-> DigitsVal(v.s)]
      [] OTHER -> [ok |-> FALSE, n |-> 0]

\* ------------------------------------------------------------ tool gateway
\* The outcome record of a tool: hasSuccess tells whether the dict has a
\* "success" key, msg tags its message, name is the tool name the message
\* quotes ("" when it quotes none), status is its "status" key ("" when it
\* has none) and dist its "distance_cm" key in hundredths of a centimetre
\* (<< >> when it has none).
Success(m) == [hasSuccess |-> TRUE, success |-> TRUE, msg |-> m, name |-> "",
               status |-> "", dist |-> << >>]
Failure(m) == [hasSuccess |-> TRUE, success |-> FALSE, msg |-> m, name |-> "",
               status |-> "", dist |-> << >>]
NoOutcome == [hasSuccess |-> FALSE, success |-> FALSE, msg |-> "", name |-> "",
              status |-> "", dist |-> << >>]

\* What the hardware does during one toolCall frame: ok (the GPIO, servo,
\* OLED and buzzer drivers work) and echo (what the ultrasonic sensor
\* answers: an echo pulse of us tenths of a microsecond, no rising edge
\* within 0.1 s, no falling edge within 0.1 s, or a driver exception).
Measured(us) == [kind |-> "measured", us |-> us]
EchoTimeoutHigh == [kind |-> "timeout_high", us |-> 0]
EchoTimeoutLow == [kind |-> "timeout_low", us |-> 0]
EchoError == [kind |-> "error", us |-> 0]
Hardware(ok, echo) == [ok |-> ok, echo |-> echo]

\* What one invocation comes to: raised (an exception left the branch),
\* result (its tool_call_result), gw (the gateway functions it called, in
\* order) and angle (current_servo_angle afterwards).
\* melody is the key of PREDEFINED_MELODIES whose notes were handed to the
\* buzzer (<< >> when none was).
Returned(r, calls, a) ==
    [raised |-> FALSE, result |-> r, gw |-> calls, angle |-> a, melody |-> << >>]
Raised(calls, a) ==
    [raised |-> TRUE, result |-> NoOutcome, gw |-> calls, angle |-> a, melody |-> << >>]

led_pins == { <<"g","r","e","e","n">>, <<"y","e","l","l","o","w">>, <<"r","e","d">>, <<"w","h","i","t","e">> }

\* set_led_state_impl(color, state); hw: the GPIO write succeeds.
set_led_state_impl(color, state, angle, hw) ==
    IF color.k # "str" THEN Raised(<<"set_led_state_impl">>, angle)
    ELSE IF Lower(color.s) \notin led_pins
        THEN Returned(Failure("Unknown LED color"), <<"set_led_state_impl">>, angle)
    ELSE IF ~hw.ok
        THEN Returned(Failure("Error controlling LED"), <<"set_led_state_impl">>, angle)
    ELSE Returned(Success(IF Truthy(state) THEN "LED turned on" ELSE "LED turned off"),
                  <<"set_led_state_impl">>, angle)

Max(a, b) == IF a >= b THEN a ELSE b
Min(a, b) == IF a <= b THEN a ELSE b

\* int(max(0, min(180, target_angle)))
ClampAngleNone(target) == target
ClampAngle(target) == Max(0, Min(180, target))

\* set_servo_angle_absolute(target_angle); hw: servo_motor is initialized
\* and ChangeDutyCycle succeeds.  [result, angle]
set_servo_angle_absolute(target, angle, hw) ==
    IF ~hw.ok THEN [result |-> Failure("Servo motor error"), angle |-> angle]
    ELSE [result |-> Success("Servo motor set"), angle |-> ClampAngle(target)]

S_clockwise == <<"c","l","o","c","k","w","i","s","e">>
S_counter_clockwise == <<"c","o","u","n","t","e","r","_","c","l","o","c","k","w","i","s","e">>
S_anticlockwise == <<"a","n","t","i","c","l","o","c","k","w","i","s","e">>

\* target_angle of a relative rotation: current_servo_angle - degrees for
\* clockwise, current_servo_angle + degrees for the two other names.
ClockwiseTargetAdds(angle, d) == angle + d
ClockwiseTarget(angle, d) == angle - d
CounterTarget(angle, d) == angle + d

\* rotate_servo_impl(degrees, direction)
rotate_servo_impl(degrees, direction, angle, hw) ==
    LET d == ToInt(degrees)
        gw == <<"rotate_servo_impl">>
        apply(target) ==
            LET r == set_servo_angle_absolute(target, angle, hw)
            IN  Returned(r.result, gw, r.angle)
    IN  IF ~d.ok THEN Raised(gw, angle)
        ELSE IF Truthy(direction)
            THEN IF direction.k # "str" THEN Raised(gw, angle)
                 ELSE IF Lower(direction.s) = S_clockwise THEN apply(ClockwiseTarget(angle, d.n))
                 ELSE IF Lower(direction.s) \in {S_counter_clockwise, S_anticlockwise}
                    THEN apply(CounterTarget(angle, d.n))
                 ELSE Returned(Failure("Unknown direction"), gw, angle)
        ELSE apply(d.n)

\* dist = round((end_t - start_t) * 34300 / 2, 2) for an echo pulse of us
\* tenths of a microsecond, in hundredths of a centimetre: 0.1715 hundredths
\* for each tenth of a microsecond, rounded to the nearest.
DistanceOf(us) == (us * 1715 + 5000) \div 10000

\* status: "out_of_range" if dist > 400 or dist < 2, in hundredths.
RangeStatusUpperOnly(dist) == IF dist > 40000 THEN "out_of_range" ELSE "in_range"
RangeStatus(dist) ==
    IF dist > 40000 \/ dist < 200 THEN "out_of_range" ELSE "in_range"

\* get_distance_from_obstacle_impl(): a completed measurement gives success
\* with distance_cm and status, a missing edge or an exception gives a
\* failure with distance_cm -1.
get_distance_from_obstacle_impl(angle, hw) ==
    LET gw == <<"get_distance_from_obstacle_impl">>
        failed(m) == Returned([Failure(m) EXCEPT !.dist = << -100 >>], gw, angle)
    IN
    CASE hw.echo.kind = "measured" ->
            Returned([Success("Obstacle at") EXCEPT
                         !.dist = << DistanceOf(hw.echo.us) >>,
                         !.status = RangeStatus(DistanceOf(hw.echo.us))],
                     gw, angle)
      [] hw.echo.kind = "timeout_high" -> failed("Echo timeout HIGH")
      [] hw.echo.kind = "timeout_low" -> failed("Echo timeout LOW")
      [] OTHER -> failed("Dist err")

\* display_text_on_oled_impl(text); hw: the OLED is initialized.  text.strip()
\* of a value that is no string raises inside its try: a failure dict.
display_text_on_oled_impl(text, angle, hw) ==
    IF hw.ok /\ text.k = "str" THEN Returned(Success("Text updated on OLED"), <<"display_text_on_oled_impl">>, angle)
    ELSE Returned(Failure("OLED not initialized"), <<"display_text_on_oled_impl">>, angle)

\* play_melody_impl(notes): its dict has "status" and "message", no "success".
\* Iterating a non-list raises inside its try and gives the error dict.
play_melody_impl(notes, angle, hw) ==
    IF hw.ok /\ notes.k = "list"
    THEN Returned([NoOutcome EXCEPT !.msg = "Melody played.", !.status = "success"],
                  <<"play_melody_impl">>, angle)
    ELSE Returned([NoOutcome EXCEPT !.msg = "error", !.status = "error"],
                  <<"play_melody_impl">>, angle)

PREDEFINED_MELODIES == { <<"t","w","i","n","k","l","e","_","s","t","a","r">>, <<"h","a","p","p","y","_","b","i","r","t","h","d","a","y">>, <<"m","a","r","y","_","l","a","m","b">>,
                         <<"o","d","e","_","t","o","_","j","o","y">>, <<"f","u","r","_","e","l","i","s","e">>, <<"c","a","n","o","n">> }

\* get_predefined_melody(melody_name): the key it looks up.
NormalizeSpacesOnly(chars) == Replace(Lower(chars), " ", "_")
NormalizeMelodyName(chars) == Replace(Replace(Lower(chars), " ", "_"), "-", "_")
get_predefined_melody(chars) ==
    IF NormalizeMelodyName(chars) \in PREDEFINED_MELODIES
    THEN [found |-> TRUE, key |-> NormalizeMelodyName(chars)]
    ELSE [found |-> FALSE, key |-> << >>]


\* --------------------------------------------------------- tool dispatch
\* The args map of a functionCall with no key set.
NoArgs == [color |-> AbsentV, state |-> AbsentV, degrees |-> AbsentV,
           direction |-> AbsentV, text |-> AbsentV, notes |-> AbsentV,
           melody_name |-> AbsentV]

\* One functionCall: id (0: absent or empty), name ("": absent), hasArgs
\* (FALSE: fc.get("args") is None) and the args map.
Call(id, name, hasArgs, args) ==
    [id |-> id, name |-> name, hasArgs |-> hasArgs, args |-> args]

KnownTools == {"set_led_state", "rotate_servo", "get_distance_from_obstacle",
               "display_on_oled", "play_melody", "play_predefined_melody"}

\* The else branch of the chain: a failure result that quotes fc_name.
UnknownToolRaises(fc, angle) == Raised(<< >>, angle)
UnknownTool(fc, angle) ==
    Returned([Failure("Unknown function") EXCEPT !.name = fc.name], << >>, angle)

\* The if/elif chain of receive_from_gemini for one fc.  fc_args.get(...) on
\* a missing args map raises AttributeError.
InvokeTool(fc, angle, hw) ==
    LET a == fc.args IN
    CASE fc.name = "set_led_state" ->
            IF ~fc.hasArgs THEN Raised(<< >>, angle)
            ELSE IF ~IsNone(a.color) /\ ~IsNone(a.state)
                THEN set_led_state_impl(a.color, a.state, angle, hw)
            ELSE Returned(Failure("Missing color or state argument for set_led_state."),
                          << >>, angle)
      [] fc.name = "rotate_servo" ->
            IF ~fc.hasArgs THEN Raised(<< >>, angle)
            ELSE IF ~IsNone(a.degrees)
                THEN rotate_servo_impl(a.degrees, a.direction, angle, hw)
            ELSE Returned(Failure("Missing degrees argument for rotate_servo."),
                          << >>, angle)
      [] fc.name = "get_distance_from_obstacle" ->
            get_distance_from_obstacle_impl(angle, hw)
      [] fc.name = "display_on_oled" ->
            IF ~fc.hasArgs THEN Raised(<< >>, angle)
            ELSE IF ~IsNone(a.text)
                \* the log line slices text_to_display[:20]
                THEN IF a.text.k \in {"int", "bool"} THEN Raised(<< >>, angle)
                     ELSE display_text_on_oled_impl(a.text, angle, hw)
            ELSE Returned(Failure("Missing text for OLED."), << >>, angle)
      [] fc.name = "play_melody" ->
            IF ~fc.hasArgs THEN Raised(<< >>, angle)
            \* fc_args.get("notes", []): a missing key plays the empty list
            ELSE play_melody_impl(IF a.notes.k = "absent" THEN ListV(0) ELSE a.notes,
                                  angle, hw)
      [] fc.name = "play_predefined_melody" ->
            IF ~fc.hasArgs THEN Raised(<< >>, angle)
            ELSE IF Truthy(a.melody_name)
                THEN IF a.melody_name.k # "str" THEN Raised(<< >>, angle)
                     ELSE IF get_predefined_melody(a.melody_name.s).found
                        THEN [play_melody_impl(ListV(1), angle, hw) EXCEPT
                                 !.melody = get_predefined_melody(a.melody_name.s).key]
                     ELSE Returned(Failure("Unknown melody. Available:"), << >>, angle)
            ELSE Returned(Failure("Missing melody_name for predefined melody."),
                          << >>, angle)
      [] OTHER -> UnknownTool(fc, angle)

\* function_responses.append(...) under "if tool_call_result and fc_id": every
\* tool_call_result is a non-empty dict, so the id decides.
AppendResponseAnyId(responses, fc, result) ==
    Append(responses, [id |-> fc.id, name |-> fc.name, output |-> result])
AppendResponse(responses, fc, result) ==
    IF fc.id # 0
    THEN Append(responses, [id |-> fc.id, name |-> fc.name, output |-> result])
    ELSE responses

\* The loop over tool_call_data["functionCalls"] from call i on: an exception
\* leaves the loop and the whole toolCall branch, the effects so far stay.
RECURSIVE DispatchFrom(_, _, _, _)
DispatchFrom(calls, i, st, hw) ==
    IF i > Len(calls) THEN st
    ELSE LET r == InvokeTool(calls[i], st.angle, hw) IN
         IF r.raised
         THEN [raised |-> TRUE, responses |-> << >>, gw |-> st.gw \o r.gw,
               angle |-> r.angle, at |-> i, gwOf |-> st.gwOf,
               angles |-> st.angles, melodies |-> st.melodies, echo |-> st.echo]
         ELSE DispatchFrom(calls, i + 1,
                [raised |-> FALSE,
                 responses |-> AppendResponse(st.responses, calls[i], r.result),
                 gw |-> st.gw \o r.gw, angle |-> r.angle, at |-> 0,
                 gwOf |-> Append(st.gwOf, r.gw),
                 angles |-> Append(st.angles, r.angle),
                 melodies |-> Append(st.melodies, r.melody),
                 echo |-> st.echo], hw)

\* What processing one toolCall frame comes to: raised (at which call),
\* responses (function_responses), gw (every gateway call made, in order),
\* gwOf (per completed call, the gateway calls it made), angles (per
\* completed call, current_servo_angle after it), melodies (per completed
\* call, the predefined melody it played), echo (what the ultrasonic sensor
\* answered during the frame), angle.
Dispatch(calls, angle, hw) ==
    DispatchFrom(calls, 1,
        [raised |-> FALSE, responses |-> << >>, gw |-> << >>, angle |-> angle,
         at |-> 0, gwOf |-> << >>, angles |-> << >>, melodies |-> << >>,
         echo |-> hw.echo], hw)

\* The messages written upstream for function_responses: one toolResponse
\* holding them all, none when the list is empty.
ToolResponsePerCall(responses) ==
    [i \in 1..Len(responses) |-> << responses[i] >>]
ToolResponseMessages(responses) ==
    IF responses = << >> THEN << >> ELSE << responses >>


\* ------------------------------------------------------------------ Init
\* Status texts put on gemini_to_web_queue.
EndingStatus == "[Gemini session ending]"
ReadyStatus == "[Gemini session ready]"

\* No client frame handled yet.
NoFrame == [kind |-> "none", client |-> 0, open |-> FALSE, queued |-> FALSE,
            toClients |-> FALSE, sent |-> FALSE, alive |-> FALSE]

\* No round of the video loop yet.
NoTick == [kind |-> "none", open |-> FALSE, sent |-> FALSE, wait |-> 0]

ConfigErrorStatus == "Error: Gemini API Key not configured on the server."

\* No toolCall frame processed yet.
NoTool == [seen |-> FALSE, calls |-> << >>, raised |-> FALSE, at |-> 0,
           responses |-> << >>, gw |-> << >>, gwOf |-> << >>, sent |-> << >>,
           sendFailed |-> FALSE, open |-> FALSE, prevRaised |-> FALSE,
           angle0 |-> 90, angles |-> << >>, melodies |-> << >>,
           echo |-> EchoError]

\* The module's globals as the import leaves them, and the three tasks of
\* start_main_server created but not yet run.
Init ==
    /\ apiKeySet \in BOOLEAN
    /\ mpc = "start"
    /\ handle = FALSE
    /\ connOpen = FALSE
    /\ fpc = "idle"
    /\ rpc = "idle"
    /\ rEnd = "none"
    /\ waited = 0
    /\ outq = << >>
    /\ inq = << >>
    /\ nextText = 1
    /\ textBy = [t \in TextIds |-> 0]
    /\ faults = MaxFaults
    /\ frames = MaxFrames
    /\ cstate = [c \in ClientIds |-> "absent"]
    /\ clients = {}
    /\ bpc = "get"
    /\ bmsg = "none"
    /\ bsnap = {}
    /\ bpending = {}
    /\ bdelivered = {}
    /\ recvd = [c \in ClientIds |-> << >>]
    /\ upTexts = << >>
    /\ upKinds = {}
    /\ userAudioActive = FALSE
    /\ lastIn = NoFrame
    /\ servoAngle = 90
    /\ lastTool = NoTool
    /\ dispatching = 0
    /\ vpc = "start"
    /\ picam2 = "none"
    /\ lastTick = NoTick
    /\ accumulated_transcription_for_oled = << >>

\* ------------------------------------------------------- Session Manager
\* The finally block of gemini_processor's loop up to its sleep: the handle
\* is cleared and the disconnect status queued.
DisconnectStatus == "[Error: Disconnected from Gemini. Attempting to reconnect...]"
FinallyBlockSilent ==
    /\ handle' = FALSE
    /\ inq' = inq
    /\ mpc' = "sleep"
FinallyBlock ==
    /\ handle' = FALSE
    /\ inq' = Append(inq, DisconnectStatus)
    /\ mpc' = "sleep"

\* gemini_processor up to websockets.connect: the credential check.
KeyCheckSkipped == TRUE
KeyConfigured == apiKeySet

MStart ==
    /\ mpc = "start"
    /\ IF KeyConfigured
       THEN mpc' = "connecting" /\ inq' = inq
       ELSE mpc' = "ended" /\ inq' = Append(inq, ConfigErrorStatus)
    /\ UNCHANGED << apiKeySet, handle, connOpen, fpc, rpc, rEnd, outq,
                    faults, frames, upTexts, upKinds >>
    /\ UNCHANGED << clientVars, bcastVars, toolVars, videoVars, loopVars >>
    /\ UNCHANGED waited

\* websockets.connect succeeds: the handle is set and the setup message sent.
MConnectOk ==
    /\ mpc = "connecting"
    /\ handle' = TRUE
    /\ connOpen' = TRUE
    /\ mpc' = "handshaking"
    /\ UNCHANGED << apiKeySet, fpc, rpc, rEnd, outq, inq, faults, frames,
                    upTexts, upKinds >>
    /\ UNCHANGED << clientVars, bcastVars, toolVars, videoVars, loopVars >>
    /\ waited' = 0

\* websockets.connect raises: except, then the finally block.
MConnectFail ==
    /\ mpc = "connecting"
    /\ faults > 0
    /\ faults' = faults - 1
    /\ FinallyBlock
    /\ UNCHANGED << apiKeySet, connOpen, fpc, rpc, rEnd, outq, frames,
                    upTexts, upKinds >>
    /\ UNCHANGED << clientVars, bcastVars, toolVars, videoVars, loopVars >>
    /\ waited' = 0

\* The first reply holds setupComplete: the ready status is queued and the
\* two sub-flows are gathered.
MSetupComplete ==
    /\ mpc = "handshaking"
    /\ connOpen
    /\ inq' = Append(inq, ReadyStatus)
    /\ fpc' = "get"
    /\ rpc' = "recv"
    /\ rEnd' = "none"
    /\ mpc' = "ready"
    /\ accumulated_transcription_for_oled' = << >>
    /\ UNCHANGED << apiKeySet, handle, connOpen, outq, faults, frames,
                    upTexts, upKinds, dispatching >>
    /\ UNCHANGED << clientVars, bcastVars, toolVars, videoVars >>
    /\ UNCHANGED waited

\* The first reply is JSON without setupComplete: error status, handle
\* cleared, sleep(5) inside the async with.
MSetupRefused ==
    /\ mpc = "handshaking"
    /\ connOpen
    /\ faults > 0
    /\ faults' = faults - 1
    /\ inq' = Append(inq, "Error: Gemini setup failed")
    /\ handle' = FALSE
    /\ mpc' = "hs_sleep"
    /\ UNCHANGED << apiKeySet, connOpen, fpc, rpc, rEnd, outq, frames,
                    upTexts, upKinds >>
    /\ UNCHANGED << clientVars, bcastVars, toolVars, videoVars, loopVars >>
    /\ UNCHANGED waited

\* The send of the setup message or the recv of the reply raises (the
\* connection is closed), or the reply is not JSON: the async with is left
\* by the exception, then the finally block.
MSetupRaises ==
    /\ mpc = "handshaking"
    /\ \/ ~connOpen /\ faults' = faults
       \/ connOpen /\ faults > 0 /\ faults' = faults - 1
    /\ connOpen' = FALSE
    /\ FinallyBlock
    /\ UNCHANGED << apiKeySet, fpc, rpc, rEnd, outq, frames, upTexts, upKinds >>
    /\ UNCHANGED << clientVars, bcastVars, toolVars, videoVars, loopVars >>
    /\ UNCHANGED waited

\* After the sleep(5) of a refused setup: continue leaves the async with
\* (the connection is closed) through the finally block.
MHsSleepDone ==
    /\ mpc = "hs_sleep"
    /\ connOpen' = FALSE
    /\ FinallyBlock
    /\ UNCHANGED << apiKeySet, fpc, rpc, rEnd, outq, faults, frames,
                    upTexts, upKinds >>
    /\ UNCHANGED << clientVars, bcastVars, toolVars, videoVars, loopVars >>
    /\ waited' = waited + 1

\* asyncio.gather returns once both sub-flows have returned; leaving the
\* async with closes the connection.
MGatherFirstDone ==
    /\ mpc = "ready"
    /\ fpc = "done" \/ rpc = "done"
    /\ connOpen' = FALSE
    /\ mpc' = "closing"
    /\ UNCHANGED << apiKeySet, handle, fpc, rpc, rEnd, outq, inq, faults,
                    frames, upTexts, upKinds >>
    /\ UNCHANGED << clientVars, bcastVars, toolVars, videoVars, loopVars >>
    /\ UNCHANGED waited
MGatherDone ==
    /\ mpc = "ready"
    /\ fpc = "done"
    /\ rpc = "done"
    /\ connOpen' = FALSE
    /\ mpc' = "closing"
    /\ UNCHANGED << apiKeySet, handle, fpc, rpc, rEnd, outq, inq, faults,
                    frames, upTexts, upKinds >>
    /\ UNCHANGED << clientVars, bcastVars, toolVars, videoVars, loopVars >>
    /\ UNCHANGED waited

\* The finally block after a session.
MFinally ==
    /\ mpc = "closing"
    /\ FinallyBlock
    /\ fpc' = "idle"
    /\ rpc' = "idle"
    /\ UNCHANGED << apiKeySet, connOpen, rEnd, outq, faults, frames,
                    upTexts, upKinds >>
    /\ UNCHANGED << clientVars, bcastVars, toolVars, videoVars, loopVars >>
    /\ UNCHANGED waited

\* asyncio.sleep(5) of the finally block returns: the next loop round.
MSleepDone ==
    /\ mpc = "sleep"
    /\ mpc' = "connecting"
    /\ UNCHANGED << apiKeySet, handle, connOpen, fpc, rpc, rEnd, outq, inq,
                    faults, frames, upTexts, upKinds >>
    /\ UNCHANGED << clientVars, bcastVars, toolVars, videoVars, loopVars >>
    /\ waited' = waited + 1

\* The peer or the network closes the connection.
UpstreamClose ==
    /\ handle
    /\ connOpen
    /\ faults > 0
    /\ faults' = faults - 1
    /\ connOpen' = FALSE
    /\ UNCHANGED << apiKeySet, mpc, handle, fpc, rpc, rEnd, outq, inq, frames,
                    upTexts, upKinds >>
    /\ UNCHANGED << clientVars, bcastVars, toolVars, videoVars, loopVars >>
    /\ UNCHANGED waited

\* --------------------------------------------------------- outbound relay
\* web_text_to_gemini_queue.put_nowait(message_from_web): asyncio.Queue is
\* FIFO, the item goes to the end.
PutBackDropped(q, t) == q
PutBack(q, t) == Append(q, t)

\* forward_text_to_gemini resumes from queue.get() with the head: it sends
\* it when the connection is open and puts it back and leaves otherwise.
\* The handle test at the loop head reads a handle that only the manager
\* clears, after the gather.
FwdSend ==
    /\ fpc = "get"
    /\ outq # << >>
    /\ handle /\ connOpen
    /\ upTexts' = Append(upTexts, Head(outq))
    /\ outq' = Tail(outq)
    /\ fpc' = IF handle THEN "get" ELSE "done"
    /\ UNCHANGED << apiKeySet, mpc, handle, connOpen, rpc, rEnd, inq, faults,
                    frames, upKinds >>
    /\ UNCHANGED << clientVars, bcastVars, toolVars, videoVars, loopVars >>
    /\ UNCHANGED waited

\* The send raises ConnectionClosed: the text is put back, the loop left.
FwdSendFails ==
    /\ fpc = "get"
    /\ outq # << >>
    /\ handle /\ connOpen
    /\ faults > 0
    /\ faults' = faults - 1
    /\ connOpen' = FALSE
    /\ outq' = PutBack(Tail(outq), Head(outq))
    /\ fpc' = "done"
    /\ UNCHANGED << apiKeySet, mpc, handle, rpc, rEnd, inq, frames, upTexts,
                    upKinds >>
    /\ UNCHANGED << clientVars, bcastVars, toolVars, videoVars, loopVars >>
    /\ UNCHANGED waited

\* The connection is found not open: the text is put back, the loop left.
FwdNotOpen ==
    /\ fpc = "get"
    /\ outq # << >>
    /\ ~(handle /\ connOpen)
    /\ outq' = PutBack(Tail(outq), Head(outq))
    /\ fpc' = "done"
    /\ UNCHANGED << apiKeySet, mpc, handle, connOpen, rpc, rEnd, inq, faults,
                    frames, upTexts, upKinds >>
    /\ UNCHANGED << clientVars, bcastVars, toolVars, videoVars, loopVars >>
    /\ UNCHANGED waited


\* -------------------------------------------------------- inbound dispatch
\* recv() hands out the frames the peer sent before it raises
\* ConnectionClosed, so a frame can be processed on a connection that is no
\* longer open.

\* A goAway frame: message_for_web is assigned and the loop left by break,
\* which skips the put at the end of the loop body.
RecvGoAway ==
    /\ rpc = "recv"
    /\ frames > 0
    /\ frames' = frames - 1
    /\ rpc' = "done"
    /\ rEnd' = "goAway"
    /\ UNCHANGED << apiKeySet, mpc, handle, connOpen, fpc, outq, inq, faults,
                    upTexts, upKinds >>
    /\ UNCHANGED << clientVars, bcastVars, toolVars, videoVars, loopVars >>
    /\ UNCHANGED waited

\* recv() raises ConnectionClosed: the loop is left.
RecvClosed ==
    /\ rpc = "recv"
    /\ ~connOpen
    /\ rpc' = "done"
    /\ rEnd' = "closed"
    /\ UNCHANGED << apiKeySet, mpc, handle, connOpen, fpc, outq, inq, faults,
                    frames, upTexts, upKinds >>
    /\ UNCHANGED << clientVars, bcastVars, toolVars, videoVars, loopVars >>
    /\ UNCHANGED waited

\* except json.JSONDecodeError / except Exception in the loop body: the
\* error is logged and the loop goes on; pc is where the sub-flow stands.
OnFrameErrorBreak(pc) == "done"
OnFrameError(pc) == pc

\* A frame that is not JSON (JSONDecodeError), or JSON with none of
\* serverContent, toolCall, goAway (logged): the loop goes on.
RecvUnhandled ==
    /\ rpc = "recv"
    /\ frames > 0
    /\ frames' = frames - 1
    /\ rpc' = OnFrameError(rpc)
    /\ UNCHANGED << apiKeySet, mpc, handle, connOpen, fpc, rEnd, outq,
                    inq, faults, upTexts, upKinds >>
    /\ UNCHANGED << clientVars, bcastVars, toolVars, videoVars, loopVars >>
    /\ UNCHANGED waited

AudioMsg(i) == IF i = 1 THEN "audio_data 1" ELSE IF i = 2 THEN "audio_data 2"
               ELSE "audio_data 3"

\* The messages one serverContent frame puts on gemini_to_web_queue, in
\* queue order.  sc: audioParts (number of audio/pcm parts of modelTurn),
\* trans (outputTranscription has text), frag (the length of that text),
\* text (modelTurn has a text part), interrupted, turnComplete.
ContentMessagesEveryPart(sc) ==
    LET m1 == IF sc.audioParts > 0 THEN AudioMsg(sc.audioParts) ELSE "none"
        m2 == IF sc.trans /\ m1 = "none" THEN "[T]" ELSE m1
        tm == IF sc.trans /\ m1 # "none" THEN << "[T]" >> ELSE << >>
        m3 == IF sc.text /\ m2 = "none" THEN "text" ELSE m2
        p0 == [i \in 1..(sc.audioParts - 1) |-> AudioMsg(i)]
        p1 == IF sc.text /\ m2 # "none" THEN << "text" >> ELSE << >>
        m4 == IF sc.interrupted /\ m3 = "none" THEN "[Gemini: Interrupted]" ELSE m3
        p2 == IF sc.interrupted THEN << "clear_audio_buffer" >> ELSE << >>
    IN  p0 \o p1 \o p2 \o (IF m4 = "none" THEN << >> ELSE << m4 >>) \o tm
ContentMessages(sc) ==
    LET m1 == IF sc.audioParts > 0 THEN AudioMsg(sc.audioParts) ELSE "none"
        m2 == IF sc.trans /\ m1 = "none" THEN "[T]" ELSE m1
        tm == IF sc.trans /\ m1 # "none" THEN << "[T]" >> ELSE << >>
        m3 == IF sc.text /\ m2 = "none" THEN "text" ELSE m2
        p1 == IF sc.text /\ m2 # "none" THEN << "text" >> ELSE << >>
        m4 == IF sc.interrupted /\ m3 = "none" THEN "[Gemini: Interrupted]" ELSE m3
        p2 == IF sc.interrupted THEN << "clear_audio_buffer" >> ELSE << >>
    IN  p1 \o p2 \o (IF m4 = "none" THEN << >> ELSE << m4 >>) \o tm

\* len(accumulated_transcription_for_oled)
RECURSIVE AccLength(_)
AccLength(acc) == IF acc = << >> THEN 0 ELSE Head(acc) + AccLength(Tail(acc))

\* The accumulator after a serverContent frame: it changes only when the
\* frame carries a fragment; it is emptied first when the frame has
\* turnComplete or when it already holds more than 200 characters.
Accumulate(acc, sc) ==
    IF sc.trans
    THEN IF sc.turnComplete \/ AccLength(acc) > 200
         THEN << sc.frag >> ELSE Append(acc, sc.frag)
    ELSE acc

\* A serverContent frame.
RecvServerContent(sc) ==
    /\ rpc = "recv"
    /\ frames > 0
    /\ frames' = frames - 1
    /\ inq' = inq \o ContentMessages(sc)
    /\ userAudioActive' = IF sc.turnComplete THEN FALSE ELSE userAudioActive
    /\ accumulated_transcription_for_oled' =
          Accumulate(accumulated_transcription_for_oled, sc)
    /\ UNCHANGED << apiKeySet, mpc, handle, connOpen, fpc, rpc, rEnd, outq,
                    faults, upTexts, upKinds >>
    /\ UNCHANGED << cstate, clients, nextText, textBy, dispatching >>
    /\ UNCHANGED << bcastVars, toolVars, videoVars >>
    /\ UNCHANGED waited
    /\ UNCHANGED lastIn

\* What lastTool records of a processed toolCall frame: the calls, whether
\* and at which call an exception left the branch, function_responses, the
\* gateway calls, the messages written upstream, whether the send raised and
\* whether the connection was open when the frame was processed, whether
\* the toolCall frame before it was left by an exception, current_servo_angle
\* when the frame arrived and after each completed call.
ToolRecord(calls, d, sent, failed) ==
    [seen |-> TRUE, calls |-> calls, raised |-> d.raised, at |-> d.at,
     responses |-> d.responses, gw |-> d.gw, gwOf |-> d.gwOf, sent |-> sent,
     sendFailed |-> failed, open |-> handle /\ connOpen,
     prevRaised |-> lastTool.seen /\ lastTool.raised,
     angle0 |-> servoAngle, angles |-> d.angles, melodies |-> d.melodies,
     echo |-> d.echo]

\* A toolCall frame: the calls are dispatched one after the other with no
\* await between them, then the responses are written upstream in one send.
\*   - nothing is written when an exception left the branch (logged by the
\*     loop's except Exception), when there is no response, or when the
\*     connection is not open;
\*   - the send may raise ConnectionClosed, which leaves the loop.
\* What the toolCall branch leaves in message_for_web and
\* transcription_message for the puts at the end of the loop body: both stay
\* None, nothing is queued for the clients.
ToolCallEchoed(calls, d) == << "toolCall" >> \o ToolResponseMessages(d.responses)
ToolCallWebMessages(calls, d) == << >>

\* The test before the send of the responses: the handle is set and its
\* connection open.
CanSendResponsesAlways == TRUE
CanSendResponses == handle /\ connOpen

ToolCallEffect(calls, hw) ==
    LET d == Dispatch(calls, servoAngle, hw)
        msgs == ToolResponseMessages(d.responses)
    IN
    /\ frames > 0
    /\ frames' = frames - 1
    /\ servoAngle' = d.angle
    /\ \/ /\ msgs = << >> \/ ~CanSendResponses
          /\ lastTool' = ToolRecord(calls, d, << >>, FALSE)
          /\ rpc' = IF d.raised THEN OnFrameError("recv") ELSE "recv"
          /\ inq' = IF d.raised THEN inq ELSE inq \o ToolCallWebMessages(calls, d)
          /\ UNCHANGED << connOpen, rEnd, faults >>
       \/ /\ msgs # << >>
          /\ CanSendResponses
          /\ lastTool' = ToolRecord(calls, d, msgs, FALSE)
          /\ inq' = inq \o ToolCallWebMessages(calls, d)
          /\ rpc' = "recv"
          /\ UNCHANGED << connOpen, rEnd, faults >>
       \/ /\ msgs # << >>
          /\ CanSendResponses
          /\ faults > 0
          /\ faults' = faults - 1
          /\ connOpen' = FALSE
          /\ rpc' = "done"
          /\ rEnd' = "closed"
          /\ lastTool' = ToolRecord(calls, d, << >>, TRUE)
          /\ inq' = inq
    /\ UNCHANGED << apiKeySet, mpc, handle, fpc, outq, upTexts, upKinds >>
    /\ UNCHANGED << clientVars, bcastVars, videoVars >>
    /\ UNCHANGED << waited, accumulated_transcription_for_oled >>

\* The same with no other task running in between: the frame is taken and
\* its calls are made in one step.
RecvToolCall(calls, hw) ==
    /\ rpc = "recv"
    /\ ToolCallEffect(calls, hw)
    /\ UNCHANGED dispatching

\* The hardware either works, with an obstacle 25.5 cm away, or fails.
Hardwares == { Hardware(TRUE, Measured(14870)), Hardware(FALSE, EchoTimeoutHigh) }

\* The gateway calls of the toolCall branch are plain calls that sleep
\* (time.sleep in the servo and buzzer gateways): from the first call to the
\* last return receive_from_gemini is inside them, and so is the thread of
\* the event loop, which runs no other task until they return.
WhileDetached == "recv"
WhileDispatching == "tool"
LoopFree == rpc # "tool"

\* receive_from_gemini has taken a toolCall frame and enters its calls.
ToolCallBegin ==
    /\ rpc = "recv"
    /\ dispatching < frames
    /\ dispatching' = dispatching + 1
    /\ rpc' = WhileDispatching
    /\ UNCHANGED << apiKeySet, mpc, handle, connOpen, fpc, rEnd, waited, outq,
                    inq, faults, frames, upTexts, upKinds >>
    /\ UNCHANGED << clientVars, bcastVars, toolVars, videoVars,
                    accumulated_transcription_for_oled >>

\* The calls of the frame have returned and the responses are written.
ToolCallEnd(calls, hw) ==
    /\ rpc = WhileDispatching
    /\ dispatching > 0
    /\ dispatching' = dispatching - 1
    /\ ToolCallEffect(calls, hw)

\* The upstream sends one of the toolCall frames of S.
RecvToolCallOf(S) ==
    /\ rpc = "recv"
    /\ frames > 0
    /\ \E calls \in S, hw \in Hardwares : RecvToolCall(calls, hw)

\* ------------------------------------------------------- client handlers
\* rpi_websocket_handler starts: the connection joins connected_web_clients.
ClientConnect(c) ==
    /\ cstate[c] = "absent"
    /\ cstate' = [cstate EXCEPT ![c] = "open"]
    /\ clients' = clients \cup {c}
    /\ UNCHANGED << nextText, textBy, userAudioActive, outq, inq, faults,
                    frames, upTexts, upKinds >>
    /\ UNCHANGED << sessionVars, bcastVars, toolVars, videoVars, loopVars >>
    /\ UNCHANGED lastIn

\* finally: connected_web_clients.remove(websocket)
RemoveClientSkipped(c) == clients
RemoveClient(c) == clients \ {c}

\* The client's socket closes; its handler has not run yet.
ClientClose(c) ==
    /\ cstate[c] = "open"
    /\ cstate' = [cstate EXCEPT ![c] = "closed"]
    /\ UNCHANGED << clients, nextText, textBy, userAudioActive, outq, inq,
                    faults, frames, upTexts, upKinds >>
    /\ UNCHANGED << sessionVars, bcastVars, toolVars, videoVars, loopVars >>
    /\ UNCHANGED lastIn

\* The handler's loop ends on the closed socket: the finally block removes it.
HandlerEnd(c) ==
    /\ cstate[c] = "closed"
    /\ cstate' = [cstate EXCEPT ![c] = "gone"]
    /\ clients' = RemoveClient(c)
    /\ UNCHANGED << nextText, textBy, userAudioActive, outq, inq, faults,
                    frames, upTexts, upKinds >>
    /\ UNCHANGED << sessionVars, bcastVars, toolVars, videoVars, loopVars >>
    /\ UNCHANGED lastIn

\* if gemini_websocket_connection and
\* gemini_websocket_connection.state == State.OPEN
CanSendAlways == TRUE
CanSendUpstream == handle /\ connOpen

\* What lastIn records of a frame of client c: its kind, whether the upstream
\* connection was open when it was taken, whether it grew
\* web_text_to_gemini_queue or gemini_to_web_queue, whether something was
\* written upstream for it, and whether the handler goes on with c still in
\* connected_web_clients.
FrameRecord(kind, c, sent) ==
    [kind |-> kind, client |-> c, open |-> handle /\ connOpen,
     queued |-> Len(outq') > Len(outq), toClients |-> Len(inq') > Len(inq),
     sent |-> sent, alive |-> cstate'[c] = "open" /\ c \in clients']

\* A text frame that is not JSON: a text turn is queued.
ClientText(c) ==
    /\ cstate[c] = "open"
    /\ nextText <= MaxTexts
    /\ outq' = Append(outq, nextText)
    /\ textBy' = [textBy EXCEPT ![nextText] = c]
    /\ nextText' = nextText + 1
    /\ UNCHANGED << cstate, clients, userAudioActive, inq, faults, frames,
                    upTexts, upKinds >>
    /\ UNCHANGED << sessionVars, bcastVars, toolVars, videoVars, loopVars >>
    /\ lastIn' = FrameRecord("text", c, FALSE)

\* {"type": "audio_stream_end"}: the marker is written upstream when the
\* connection is open, and nothing is done otherwise.
ClientAudioStreamEnd(c) ==
    /\ cstate[c] = "open"
    /\ userAudioActive' = FALSE
    /\ upKinds' = IF CanSendUpstream
                  THEN upKinds \cup { << "audioStreamEnd", mpc >> } ELSE upKinds
    /\ UNCHANGED << cstate, clients, nextText, textBy, outq, inq, faults, frames,
                    upTexts >>
    /\ UNCHANGED << sessionVars, bcastVars, toolVars, videoVars, loopVars >>
    /\ lastIn' = FrameRecord("audio_stream_end", c, CanSendUpstream)

\* The send of the marker raises ConnectionClosed: only JSONDecodeError is
\* caught around it, so the handler's outer except clauses end the handler.
ClientAudioStreamEndFails(c) ==
    /\ cstate[c] = "open"
    /\ CanSendUpstream
    /\ faults > 0
    /\ faults' = faults - 1
    /\ connOpen' = FALSE
    /\ userAudioActive' = FALSE
    /\ cstate' = [cstate EXCEPT ![c] = "gone"]
    /\ clients' = RemoveClient(c)
    /\ UNCHANGED << apiKeySet, mpc, handle, fpc, rpc, rEnd, waited >>
    /\ UNCHANGED << nextText, textBy, outq, inq, frames, upTexts, upKinds >>
    /\ UNCHANGED << bcastVars, toolVars, videoVars, loopVars >>
    /\ lastIn' = FrameRecord("audio_stream_end", c, FALSE)

\* A JSON object of another type: logged.
ClientJsonObject(c) ==
    /\ cstate[c] = "open"
    /\ UNCHANGED << cstate, clients, nextText, textBy, userAudioActive, outq,
                    inq, faults, frames, upTexts, upKinds >>
    /\ UNCHANGED << sessionVars, bcastVars, toolVars, videoVars, loopVars >>
    /\ lastIn' = FrameRecord("json_object", c, FALSE)

\* JSON that is no object (a number, a string, an array, null): data.get
\* raises AttributeError, which the handler's except Exception catches
\* outside the loop; the finally block removes the connection.
ClientJsonNonObject(c) ==
    /\ cstate[c] = "open"
    /\ cstate' = [cstate EXCEPT ![c] = "gone"]
    /\ clients' = RemoveClient(c)
    /\ UNCHANGED << nextText, textBy, userAudioActive, outq, inq, faults,
                    frames, upTexts, upKinds >>
    /\ UNCHANGED << sessionVars, bcastVars, toolVars, videoVars, loopVars >>
    /\ lastIn' = FrameRecord("json_value", c, FALSE)

\* A binary frame: written upstream when the connection is open, dropped
\* otherwise.
ClientAudio(c) ==
    /\ cstate[c] = "open"
    /\ userAudioActive' = TRUE
    /\ upKinds' = IF CanSendUpstream
                  THEN upKinds \cup { << "audio", mpc >> } ELSE upKinds
    /\ accumulated_transcription_for_oled' =
          IF userAudioActive THEN accumulated_transcription_for_oled ELSE << >>
    /\ UNCHANGED << cstate, clients, nextText, textBy, outq, inq, faults, frames,
                    upTexts, dispatching >>
    /\ UNCHANGED << sessionVars, bcastVars, toolVars, videoVars >>
    /\ lastIn' = FrameRecord("audio", c, CanSendUpstream)

\* The send of the audio chunk raises: caught and logged in place.
ClientAudioFails(c) ==
    /\ cstate[c] = "open"
    /\ CanSendUpstream
    /\ faults > 0
    /\ faults' = faults - 1
    /\ connOpen' = FALSE
    /\ userAudioActive' = TRUE
    /\ UNCHANGED << apiKeySet, mpc, handle, fpc, rpc, rEnd, waited >>
    /\ accumulated_transcription_for_oled' =
          IF userAudioActive THEN accumulated_transcription_for_oled ELSE << >>
    /\ UNCHANGED << cstate, clients, nextText, textBy, outq, inq, frames,
                    upTexts, upKinds, dispatching >>
    /\ UNCHANGED << bcastVars, toolVars, videoVars >>
    /\ lastIn' = FrameRecord("audio", c, FALSE)

\* ------------------------------------------------------------ video stream
\* What lastTick records of a round: what it came to, whether the connection
\* was open, whether a frame was written upstream, and the seconds slept on
\* top of the 1 / VIDEO_FPS of every round.
Tick(kind, sent, wait) ==
    [kind |-> kind, open |-> handle /\ connOpen, sent |-> sent, wait |-> wait]

\* stream_video_to_gemini starts: the first setup_camera, which succeeds
\* (cam) or fails; the loop is entered either way.
VideoStart(cam) ==
    /\ vpc = "start"
    /\ vpc' = "loop"
    /\ picam2' = IF cam THEN "started" ELSE "none"
    /\ lastTick' = Tick(IF cam THEN "initial_setup" ELSE "initial_setup_failed",
                        FALSE, 0)
    /\ UNCHANGED << outq, inq, faults, frames, upTexts, upKinds >>
    /\ UNCHANGED << sessionVars, clientVars, bcastVars, toolVars, loopVars >>

\* What the outcomes of the frame part of a round are: the frame is sent
\* ("ok"), capture_file gives no bytes ("empty"), raises the RuntimeError of
\* a camera that stopped ("source_stopped"), raises anything else
\* ("frame_error"), or the send raises ("send_error").
FrameOutcomes == {"ok", "empty", "source_stopped", "frame_error", "send_error"}

\* picam2 after the except clause of the frame part.
SourceKept(out) == "started"
SourceAfter(out) == IF out = "source_stopped" THEN "none" ELSE "started"

\* The sleep of the except clause and of the branches that end the round.
WaitAfter(out) ==
    CASE out = "source_stopped" -> 1
      [] out \in {"frame_error", "send_error"} -> 2
      [] OTHER -> 0

\* One round of stream_video_to_gemini's loop.  cam: the camera runs when the
\* frame part is reached (it ran already, or setup_camera has just
\* re-acquired it); without it the round ends in sleep(5) and continue.  With
\* it, a frame is captured and written upstream when the connection is open,
\* with outcome out, and the round is skipped with sleep(1) otherwise.
VideoRound(cam, out) ==
    /\ vpc = "loop"
    /\ picam2 = "started" => cam
    /\ (~cam \/ ~CanSendUpstream) => out = "ok"
    /\ out = "send_error" => faults > 0
    /\ faults' = IF out = "send_error" THEN faults - 1 ELSE faults
    /\ connOpen' = IF out = "send_error" THEN FALSE ELSE connOpen
    /\ picam2' = IF ~cam THEN "none"
                 ELSE IF ~CanSendUpstream THEN "started"
                 ELSE SourceAfter(out)
    /\ upKinds' = IF cam /\ CanSendUpstream /\ out = "ok"
                  THEN upKinds \cup { << "video", mpc >> } ELSE upKinds
    /\ UNCHANGED << apiKeySet, mpc, handle, fpc, rpc, rEnd, waited >>
    /\ UNCHANGED << outq, inq, frames, upTexts, vpc >>
    /\ UNCHANGED << clientVars, bcastVars, toolVars, loopVars >>
    /\ lastTick' = IF ~cam THEN Tick("setup_failed", FALSE, 5)
                   ELSE IF ~CanSendUpstream THEN Tick("skipped", FALSE, 1)
                   ELSE Tick(out, out = "ok", WaitAfter(out))

\* A round in which nothing raises.
VideoTick(cam) == VideoRound(cam, "ok")

\* The send of the frame raises: caught and logged by except Exception.
VideoTickFails == \E cam \in BOOLEAN : VideoRound(cam, "send_error")

\* -------------------------------------------------------------- broadcast
\* asyncio.gather(..., return_exceptions=True)
GatherRaises == FALSE
GatherReturnExceptions == TRUE

\* list(connected_web_clients)
EveryClient == ClientIds
ActiveClients == clients

\* A message is taken from gemini_to_web_queue and the sends to the
\* snapshot are started; with no client it is done at once.
BGet ==
    /\ bpc = "get"
    /\ inq # << >>
    /\ inq' = Tail(inq)
    /\ bmsg' = Head(inq)
    /\ bsnap' = ActiveClients
    /\ bpending' = ActiveClients
    /\ bdelivered' = {}
    /\ bpc' = IF ActiveClients = {} THEN "get" ELSE "sending"
    /\ UNCHANGED << recvd, outq, faults, frames, upTexts, upKinds >>
    /\ UNCHANGED << sessionVars, clientVars, toolVars, videoVars, loopVars >>

\* One send of the gather: the message reaches a client whose socket is open;
\* on another socket send raises, and the gather keeps the exception as that
\* send's result.
BSend(c) ==
    /\ bpc = "sending"
    /\ c \in bpending
    /\ bpending' = bpending \ {c}
    /\ IF cstate[c] = "open"
       THEN /\ recvd' = [recvd EXCEPT ![c] = Append(recvd[c], bmsg)]
            /\ bdelivered' = bdelivered \cup {c}
            /\ bpc' = bpc
       ELSE /\ recvd' = recvd
            /\ bdelivered' = bdelivered
            /\ bpc' = IF GatherReturnExceptions THEN bpc ELSE "dead"
    /\ UNCHANGED << bmsg, bsnap, outq, inq, faults, frames, upTexts, upKinds >>
    /\ UNCHANGED << sessionVars, clientVars, toolVars, videoVars, loopVars >>

\* The gather returns: the results are logged, task_done, the next get.
BDone ==
    /\ bpc = "sending"
    /\ bpending = {}
    /\ bpc' = "get"
    /\ UNCHANGED << bmsg, bsnap, bpending, bdelivered, recvd, outq, inq,
                    faults, frames, upTexts, upKinds >>
    /\ UNCHANGED << sessionVars, clientVars, toolVars, videoVars, loopVars >>


\* ------------------------------------------------- what the peers may send
\* Number of functionCalls of one toolCall frame.
MaxCalls == 2

LedOn == [NoArgs EXCEPT !.color = StrV(<<"R","e","d">>), !.state = BoolV(TRUE)]
LedNoState == [NoArgs EXCEPT !.color = StrV(<<"R","e","d">>)]
LedNumberColor == [NoArgs EXCEPT !.color = IntV(7), !.state = BoolV(TRUE)]
RotateTo200 == [NoArgs EXCEPT !.degrees = IntV(200)]
RotateClockwise30 == [NoArgs EXCEPT !.degrees = IntV(30), !.direction = StrV(S_clockwise)]
RotateWord == [NoArgs EXCEPT !.degrees = StrV(<<"a","b">>)]
OledHi == [NoArgs EXCEPT !.text = StrV(<<"h","i">>)]
MelodyTwoNotes == [NoArgs EXCEPT !.notes = ListV(2)]
PredefinedTwinkle == [NoArgs EXCEPT !.melody_name = StrV(<<"T","w","i","n","k","l","e"," ","S","t","a","r">>)]
PredefinedNope == [NoArgs EXCEPT !.melody_name = StrV(<<"n","o","p","e">>)]

\* The functionCalls the upstream may send with a given id.
SampleCalls(id) ==
    { Call(id, "mystery_tool", TRUE, NoArgs),
      Call(id, "set_led_state", TRUE, LedOn),
      Call(id, "set_led_state", TRUE, LedNoState),
      Call(id, "set_led_state", FALSE, NoArgs),
      Call(id, "set_led_state", TRUE, LedNumberColor),
      Call(id, "rotate_servo", TRUE, RotateTo200),
      Call(id, "rotate_servo", TRUE, RotateClockwise30),
      Call(id, "rotate_servo", TRUE, RotateWord),
      Call(id, "rotate_servo", TRUE, NoArgs),
      Call(id, "get_distance_from_obstacle", FALSE, NoArgs),
      Call(id, "display_on_oled", TRUE, OledHi),
      Call(id, "display_on_oled", TRUE, NoArgs),
      Call(id, "play_melody", TRUE, MelodyTwoNotes),
      Call(id, "play_melody", TRUE, NoArgs),
      Call(id, "play_predefined_melody", TRUE, PredefinedTwinkle),
      Call(id, "play_predefined_melody", TRUE, PredefinedNope),
      Call(id, "play_predefined_melody", TRUE, NoArgs) }

\* The calls that may follow the first one of a frame.
FollowCalls(id) ==
    { Call(id, "mystery_tool", TRUE, NoArgs),
      Call(id, "set_led_state", TRUE, LedOn),
      Call(id, "get_distance_from_obstacle", FALSE, NoArgs),
      Call(0, "set_led_state", TRUE, LedOn) }

\* The toolCall frames the upstream may send: up to MaxCalls calls, the ids
\* of one frame distinct where present (0: the call carries no id).
RECURSIVE RequestsOfLen(_)
RequestsOfLen(n) ==
    IF n = 1 THEN { << c >> : c \in SampleCalls(1) \cup FollowCalls(0) }
    ELSE { Append(r, c) : r \in RequestsOfLen(n - 1), c \in FollowCalls(n) }
Requests == UNION { RequestsOfLen(n) : n \in 1..MaxCalls }

\* rotate_servo calls: the degrees and the directions the upstream may name
\* (none: an absolute angle).
ServoDegrees == {-50, 0, 30, 100, 200}
ServoDirections ==
    { AbsentV, StrV(S_clockwise), StrV(S_counter_clockwise),
      StrV(<<"A","n","t","i","c","l","o","c","k","w","i","s","e">>) }
RotateCall(id, d, dir) ==
    Call(id, "rotate_servo", TRUE,
         [NoArgs EXCEPT !.degrees = IntV(d), !.direction = dir])

\* The toolCall frames of the servo runs: one rotation, or two rotations by
\* the same degrees.
ServoRequests ==
    { << RotateCall(1, d, dir) >> : d \in ServoDegrees, dir \in ServoDirections }
    \cup { << RotateCall(1, d, dir1), RotateCall(2, d, dir2) >> :
              d \in ServoDegrees,
              dir1 \in ServoDirections \ {AbsentV},
              dir2 \in ServoDirections \ {AbsentV} }

\* The melody names of the lookup runs: three spellings of one entry, another
\* entry in capitals, and two names that match no entry.
MelodyNames ==
    { <<"T","w","i","n","k","l","e"," ","S","t","a","r">>,
      <<"t","w","i","n","k","l","e","_","s","t","a","r">>,
      <<"t","w","i","n","k","l","e","-","s","t","a","r">>,
      <<"F","U","R","-","E","L","I","S","E">>,
      <<"t","w","i","n","k","l","e","s","t","a","r">>,
      <<"n","o","p","e">> }
MelodyCall(id, chars) ==
    Call(id, "play_predefined_melody", TRUE,
         [NoArgs EXCEPT !.melody_name = StrV(chars)])

\* The toolCall frames of the lookup runs: one or two predefined melodies.
MelodyRequests ==
    { << MelodyCall(1, a) >> : a \in MelodyNames }
    \cup { << MelodyCall(1, a), MelodyCall(2, b) >> :
              a \in MelodyNames, b \in MelodyNames }

\* The echo pulses of the distance runs, in tenths of a microsecond: end_t
\* before start_t, no pulse, 1.99 cm, 2.00 cm, 2.01 cm, 25.5 cm, 400.00 cm,
\* 400.01 cm and 1697.85 cm.
EchoDurations == { -30, 0, 1160, 1166, 1172, 14870, 233236, 233242, 990000 }
EchoOutcomes ==
    { Measured(us) : us \in EchoDurations }
    \cup { EchoTimeoutHigh, EchoTimeoutLow, EchoError }
DistanceCall(id) == Call(id, "get_distance_from_obstacle", FALSE, NoArgs)

\* The toolCall frames of the distance runs: a measurement alone, two of
\* them, or one after a rotation.
SonarRequests ==
    { << DistanceCall(1) >>, << DistanceCall(1), DistanceCall(2) >>,
      << RotateCall(1, 30, StrV(S_clockwise)), DistanceCall(2) >> }

\* The toolCall frames of the scheduling runs: a rotation or a melody.
InlineRequests ==
    { << RotateCall(1, 30, StrV(S_clockwise)) >>,
      << Call(1, "play_melody", TRUE, MelodyTwoNotes) >> }

\* The serverContent frames of the relay's runs.
MainContents ==
    { [audioParts |-> 1, trans |-> FALSE, frag |-> 0, text |-> FALSE,
       interrupted |-> FALSE, turnComplete |-> FALSE],
      [audioParts |-> 0, trans |-> TRUE, frag |-> 5, text |-> FALSE,
       interrupted |-> FALSE, turnComplete |-> TRUE] }

\* The serverContent frames of the transcription runs: no fragment or one of
\* 5, 200 or 201 characters, with or without turnComplete.
TranscriptContents ==
    { [audioParts |-> 0, trans |-> n > 0, frag |-> n, text |-> FALSE,
       interrupted |-> FALSE, turnComplete |-> tc] :
          n \in {0, 5, 200, 201}, tc \in BOOLEAN }

\* Number of audio parts of one modelTurn.
MaxAudioParts == 2

\* Every shape of a serverContent frame: up to MaxAudioParts audio parts,
\* with or without a transcription fragment, a text part, interrupted and
\* turnComplete.
AllContents ==
    { [audioParts |-> n, trans |-> tr, frag |-> IF tr THEN 5 ELSE 0,
       text |-> tx, interrupted |-> ir, turnComplete |-> tc] :
          n \in 0..MaxAudioParts, tr \in BOOLEAN, tx \in BOOLEAN,
          ir \in BOOLEAN, tc \in BOOLEAN }

\* ------------------------------------------------------ the specifications
Manager ==
    \/ MStart \/ MConnectOk \/ MConnectFail
    \/ MSetupComplete \/ MSetupRefused \/ MSetupRaises \/ MHsSleepDone
    \/ MGatherDone \/ MFinally \/ MSleepDone

Forward == FwdSend \/ FwdSendFails \/ FwdNotOpen

Broadcast == BGet \/ (\E c \in ClientIds : BSend(c)) \/ BDone

\* What the upstream peer does to a session.
Upstream ==
    \/ UpstreamClose
    \/ RecvGoAway
    \/ RecvUnhandled
    \/ \E sc \in MainContents : RecvServerContent(sc)

\* The clients as producers of text turns.
TextClient(c) ==
    \/ ClientConnect(c) \/ ClientClose(c) \/ HandlerEnd(c)
    \/ ClientText(c)

\* The relay core: the Session Manager with its two sub-flows, the upstream
\* peer and the clients' text turns.  The broadcast task takes no step here,
\* so inq holds every message queued for the clients so far, in order.
Next ==
    \/ Manager
    \/ Forward
    \/ RecvClosed
    \/ Upstream
    \/ \E c \in ClientIds : TextClient(c)

Spec == Init /\ [][Next]_vars

\* The relay core with the scheduling asyncio guarantees: a task that can
\* run does run.  The clients and the upstream peer owe nothing.
FairSpec ==
    /\ Spec
    /\ WF_vars(Manager)
    /\ WF_vars(Forward)
    /\ WF_vars(RecvClosed)

\* The fan-out hub: the clients come and go while the broadcast task
\* delivers the statuses of the Session Manager's connection attempts.
HubNext ==
    \/ MStart \/ MConnectOk \/ MConnectFail
    \/ MSetupComplete \/ MSetupRefused \/ MSetupRaises \/ MHsSleepDone
    \/ MSleepDone
    \/ Broadcast
    \/ \E c \in ClientIds :
          \/ ClientConnect(c) \/ ClientClose(c) \/ HandlerEnd(c)
          \/ ClientJsonNonObject(c)

HubSpec == Init /\ [][HubNext]_vars

\* The media path: the clients' frames and the video stream against the
\* Session Manager's connection attempts.
MediaClient(c) ==
    \/ ClientConnect(c)
    \/ ClientText(c)
    \/ ClientAudio(c) \/ ClientAudioFails(c)
    \/ ClientAudioStreamEnd(c) \/ ClientAudioStreamEndFails(c)
    \/ ClientJsonObject(c) \/ ClientJsonNonObject(c)

MediaNext ==
    \/ MStart \/ MConnectOk \/ MConnectFail
    \/ MSetupComplete \/ MSetupRefused \/ MSetupRaises \/ MHsSleepDone
    \/ MSleepDone
    \/ UpstreamClose
    \/ (\E cam \in BOOLEAN : VideoStart(cam))
    \/ (\E cam \in BOOLEAN : VideoTick(cam)) \/ VideoTickFails
    \/ \E c \in ClientIds : MediaClient(c)

MediaSpec == Init /\ [][MediaNext]_vars

\* The server with or without its credential: the Session Manager's start,
\* the clients coming, sending audio chunks and going, and the broadcast
\* task.
IdleNext ==
    \/ MStart \/ MConnectOk \/ MSetupComplete
    \/ Broadcast
    \/ \E c \in ClientIds :
          \/ ClientConnect(c) \/ ClientClose(c) \/ HandlerEnd(c)
          \/ ClientAudio(c)

IdleSpec == Init /\ [][IdleNext]_vars

\* The event loop around a tool dispatch: the tasks take their steps only
\* while the loop's thread is free; the upstream peer and the hardware act
\* on their own.
InlineNext ==
    \/ LoopFree /\ MStart
    \/ LoopFree /\ MConnectOk
    \/ LoopFree /\ MSetupComplete
    \/ LoopFree /\ MGatherDone
    \/ LoopFree /\ MFinally
    \/ LoopFree /\ MSleepDone
    \/ LoopFree /\ FwdSend
    \/ LoopFree /\ FwdSendFails
    \/ LoopFree /\ FwdNotOpen
    \/ LoopFree /\ RecvClosed
    \/ LoopFree /\ ToolCallBegin
    \/ \E calls \in InlineRequests, hw \in Hardwares : ToolCallEnd(calls, hw)
    \/ UpstreamClose
    \/ \E c \in ClientIds : LoopFree /\ ClientConnect(c)
    \/ \E c \in ClientIds : LoopFree /\ ClientText(c)

InlineSpec == Init /\ [][InlineNext]_vars

\* The video stream against one session: the camera is acquired, lost and
\* re-acquired while the connection opens and closes.
VideoNext ==
    \/ MStart \/ MConnectOk \/ MConnectFail \/ MSetupComplete \/ MSleepDone
    \/ UpstreamClose
    \/ \E cam \in BOOLEAN : VideoStart(cam)
    \/ \E cam \in BOOLEAN, out \in FrameOutcomes : VideoRound(cam, out)

VideoSpec == Init /\ [][VideoNext]_vars

\* The transcription path: sessions that receive transcription fragments
\* and end, and clients that start audio turns.
TranscriptNext ==
    \/ MStart \/ MConnectOk \/ MSetupComplete
    \/ MGatherDone \/ MFinally \/ MSleepDone
    \/ FwdNotOpen
    \/ RecvClosed
    \/ UpstreamClose
    \/ \E sc \in TranscriptContents : RecvServerContent(sc)
    \/ \E c \in ClientIds : ClientConnect(c) \/ ClientText(c) \/ ClientAudio(c)

TranscriptSpec == Init /\ [][TranscriptNext]_vars

\* The receive loop on serverContent frames of every shape.
ContentNext ==
    \/ MStart \/ MConnectOk \/ MSetupComplete
    \/ \E sc \in AllContents : RecvServerContent(sc)

ContentSpec == Init /\ [][ContentNext]_vars

\* Tool dispatch: one session, the upstream sending any of Requests.
ToolNext ==
    \/ MStart \/ MConnectOk \/ MSetupComplete
    \/ UpstreamClose
    \/ RecvClosed
    \/ RecvUnhandled
    \/ RecvToolCallOf(Requests)

ToolSpec == Init /\ [][ToolNext]_vars

\* The servo: one session, the upstream sending rotate_servo calls.
ServoNext ==
    \/ MStart \/ MConnectOk \/ MSetupComplete
    \/ RecvToolCallOf(ServoRequests)

ServoSpec == Init /\ [][ServoNext]_vars

\* One session that looks up predefined melodies.
MelodyNext ==
    \/ MStart \/ MConnectOk \/ MSetupComplete
    \/ RecvToolCallOf(MelodyRequests)

MelodySpec == Init /\ [][MelodyNext]_vars

\* One session that measures distances: the upstream sends one of the
\* toolCall frames of SonarRequests and the sensor answers with any of
\* EchoOutcomes.
RecvSonarCall ==
    /\ rpc = "recv"
    /\ frames > 0
    /\ \E calls \in SonarRequests, e \in EchoOutcomes :
          RecvToolCall(calls, Hardware(TRUE, e))

SonarNext ==
    \/ MStart \/ MConnectOk \/ MSetupComplete
    \/ RecvSonarCall

SonarSpec == Init /\ [][SonarNext]_vars


\* ================================================================ claims
\* In Spec and FairSpec nothing takes messages off gemini_to_web_queue, so
\* inq is the history of what was queued for the clients.

\* C1: whenever the upstream connection closes or errors while the session
\* is Ready, the manager gives the session up (the handle is cleared) and,
\* after the retry sleep, attempts to connect again.
C1_ReconnectsAfterClose ==
    (mpc = "ready" /\ ~connOpen) ~> (~handle /\ mpc = "connecting")

\* The index of the last ready status in q, 0 when there is none.
LastReadyAt(q) ==
    LET R == {i \in 1..Len(q) : q[i] = ReadyStatus}
    IN  IF R = {} THEN 0 ELSE CHOOSE i \in R : \A j \in R : j <= i

\* C2: once a goAway frame ended the receive loop of a session, the status
\* "[Gemini session ending]" has been queued for the clients exactly once in
\* that session, and it is the newest queued message until the manager
\* queues the disconnect status of the cycle.
C2_GoAwayStatusQueued ==
    (rEnd = "goAway" /\ mpc \in {"ready", "closing"}) =>
        /\ inq # << >>
        /\ inq[Len(inq)] = EndingStatus
        /\ Cardinality({i \in (LastReadyAt(inq) + 1)..Len(inq) :
                            inq[i] = EndingStatus}) = 1

\* C3: after a goAway frame the session is ended: the handle is cleared and,
\* after the retry sleep, the manager attempts to connect again.
C3_ReconnectsAfterGoAway ==
    (rEnd = "goAway" /\ rpc = "done" /\ mpc = "ready")
        ~> (~handle /\ mpc = "connecting")

\* The number of places of q that hold t.
Count(q, t) == Cardinality({i \in 1..Len(q) : q[i] = t})

\* Every text turn a client queued is waiting in the queue or was written
\* upstream, once.
NoTextLost ==
    \A t \in 1..(nextText - 1) : Count(outq, t) + Count(upTexts, t) = 1

\* C4: a text turn taken from the queue while the connection is not open
\* (or whose send finds it closed) is put back, not dropped: every queued
\* text turn is in the queue or was sent, once, and a waiting text turn is
\* sent once a session is Ready with its connection open, unless that
\* connection closes first.
C4_TextNotLost ==
    /\ []NoTextLost
    /\ \A t \in TextIds :
         (Count(outq, t) = 1 /\ mpc = "ready" /\ connOpen /\ fpc = "get")
            ~> (Count(upTexts, t) = 1 \/ ~connOpen)

\* A text turn that was put back and was sent on a later session: text 1 was
\* queued first and is sent after text 2.
C4_PutBackThenSent == upTexts = << 2, 1 >>

\* C5: the text turns of one client are written upstream in the order in
\* which the client sent them.
C5_TextOrderKept ==
    \A i, j \in 1..Len(upTexts) :
        (i < j /\ textBy[upTexts[i]] = textBy[upTexts[j]])
            => upTexts[i] < upTexts[j]


\* ------------------------------------------------------------ tool calls
\* The places of calls that carry an id, and their ids.
IdCalls(calls) == {i \in 1..Len(calls) : calls[i].id # 0}
IdsOf(calls) == {calls[i].id : i \in IdCalls(calls)}
IdsIn(batch) == {batch[k].id : k \in 1..Len(batch)}

\* C6: for a toolCall frame processed while the connection is open (and
\* whose send does not fail), exactly one toolResponse is written upstream;
\* it holds one result per call that carried an id, and its ids are the ids
\* of those calls, whatever the names and arguments of the calls.
C6_OneResultPerId ==
    (lastTool.seen /\ lastTool.open /\ ~lastTool.sendFailed
        /\ IdCalls(lastTool.calls) # {}) =>
        /\ Len(lastTool.sent) = 1
        /\ Len(lastTool.sent[1]) = Cardinality(IdCalls(lastTool.calls))
        /\ IdsIn(lastTool.sent[1]) = IdsOf(lastTool.calls)

\* C7: every message written upstream for a toolCall frame holds the results
\* of all the id-bearing calls of the frame: the upstream never has the
\* result of one of them without the results of the others.
C7_NoPartialBatch ==
    lastTool.seen =>
        \A k \in 1..Len(lastTool.sent) :
            /\ IdsIn(lastTool.sent[k]) = IdsOf(lastTool.calls)
            /\ Len(lastTool.sent[k]) = Cardinality(IdCalls(lastTool.calls))

\* One message with the results of both calls of a frame was written.
C7_TwoResultsOneMessage ==
    /\ lastTool.seen
    /\ Len(lastTool.calls) = 2
    /\ Len(lastTool.sent) = 1
    /\ Len(lastTool.sent[1]) = 2

\* A call of a tool that the chain does not know, the valid LED call.
IsUnknownCall(fc) == fc.name \notin KnownTools
IsValidLedCall(fc) == fc.name = "set_led_state" /\ fc.hasArgs /\ fc.args = LedOn

\* C8: a call with an unrecognized tool name never raises and, when it has
\* an id, gets a failure result that names the tool; the other calls of the
\* frame are still dispatched: a frame made of unknown-tool calls and valid
\* set_led_state calls gets one result per id-bearing call, in one message.
C8_UnknownToolFails ==
    lastTool.seen =>
        LET calls == lastTool.calls
            resp == lastTool.responses
        IN
        /\ lastTool.raised => ~IsUnknownCall(calls[lastTool.at])
        /\ ~lastTool.raised =>
             /\ Len(lastTool.gwOf) = Len(calls)
             /\ \A i \in IdCalls(calls) :
                  IsUnknownCall(calls[i]) =>
                    /\ lastTool.gwOf[i] = << >>
                    /\ \E k \in 1..Len(resp) :
                         /\ resp[k].id = calls[i].id
                         /\ resp[k].output.hasSuccess
                         /\ ~resp[k].output.success
                         /\ resp[k].output.name = calls[i].name
        /\ (\A i \in 1..Len(calls) :
                IsUnknownCall(calls[i]) \/ IsValidLedCall(calls[i])) =>
             /\ ~lastTool.raised
             /\ Len(resp) = Cardinality(IdCalls(calls))
             /\ (lastTool.open /\ ~lastTool.sendFailed /\ IdCalls(calls) # {}) =>
                  /\ Len(lastTool.sent) = 1
                  /\ Len(lastTool.sent[1]) = Cardinality(IdCalls(calls))

\* An unknown-tool call and a valid set_led_state call, both with ids, were
\* answered by one message of two results.
C8_UnknownAndLedAnswered ==
    /\ lastTool.seen
    /\ Len(lastTool.calls) = 2
    /\ IsUnknownCall(lastTool.calls[1]) /\ lastTool.calls[1].id # 0
    /\ IsValidLedCall(lastTool.calls[2]) /\ lastTool.calls[2].id # 0
    /\ Len(lastTool.sent) = 1
    /\ Len(lastTool.sent[1]) = 2
    /\ ~lastTool.sent[1][1].output.success
    /\ lastTool.sent[1][1].output.name = lastTool.calls[1].name

\* A call of a known tool whose required argument is missing (the args map
\* may be absent) or has a type the tool cannot use.
BadArgs(fc) ==
    \/ fc.name = "set_led_state"
         /\ (~fc.hasArgs \/ fc.args.color.k # "str" \/ fc.args.state.k # "bool")
    \/ fc.name = "rotate_servo"
         /\ (~fc.hasArgs \/ ~ToInt(fc.args.degrees).ok)
    \/ fc.name = "display_on_oled"
         /\ (~fc.hasArgs \/ fc.args.text.k # "str")
    \/ fc.name = "play_melody"
         /\ (~fc.hasArgs \/ fc.args.notes.k # "list")
    \/ fc.name = "play_predefined_melody"
         /\ (~fc.hasArgs \/ fc.args.melody_name.k # "str")

\* C9: a call of a known tool with a missing or unusable required argument
\* does not raise, makes no gateway call, and gets a failure result when it
\* has an id (so the other calls of the frame keep their results).
C9_BadArgsFailNoGateway ==
    lastTool.seen =>
        \A i \in 1..Len(lastTool.calls) :
            BadArgs(lastTool.calls[i]) =>
                /\ lastTool.at # i
                /\ i <= Len(lastTool.gwOf) => lastTool.gwOf[i] = << >>
                /\ (~lastTool.raised /\ lastTool.calls[i].id # 0) =>
                     \E k \in 1..Len(lastTool.responses) :
                         /\ lastTool.responses[k].id = lastTool.calls[i].id
                         /\ lastTool.responses[k].output.hasSuccess
                         /\ ~lastTool.responses[k].output.success

\* -------------------------------------------------------------- broadcast
\* C10: a broadcast is sent to the snapshot taken when the message was
\* dequeued, each client on its own: once the sends are through, every
\* snapshot client whose socket is open has the message as its newest one,
\* whatever happened to the other clients, and the broadcast task is alive
\* and goes on to the next message.
C10_BroadcastIndependent ==
    /\ bpc # "dead"
    /\ bpending \subseteq bsnap
    /\ bdelivered \subseteq bsnap \ bpending
    /\ \A c \in bsnap \ bpending :
          cstate[c] = "open" => c \in bdelivered
    /\ \A c \in bdelivered :
          recvd[c] # << >> /\ recvd[c][Len(recvd[c])] = bmsg
    /\ (bpc = "sending" /\ bpending = {}) => ENABLED BDone

\* A broadcast to two clients is through: one has the message, the other one
\* left (and was removed from connected_web_clients) while it was in flight.
C10_OneLeftOneDelivered ==
    /\ bpc = "sending"
    /\ bpending = {}
    /\ \E c, d \in bsnap :
          /\ c \in bdelivered
          /\ d \notin bdelivered
          /\ d \notin clients


C12_OneSessionAtATime ==
    /\ (fpc = "get" \/ rpc = "recv") => (mpc = "ready" /\ handle)
    /\ mpc \in {"sleep", "connecting"} =>
          (~handle /\ fpc = "idle" /\ rpc = "idle")
    /\ mpc \in {"handshaking", "hs_sleep"} => (fpc = "idle" /\ rpc = "idle")

\* The second session of a run is Ready with both sub-flows running.
C12_SecondSessionReady ==
    /\ mpc = "ready"
    /\ fpc = "get"
    /\ rpc = "recv"
    /\ Count(inq, ReadyStatus) = 2


\* C16: the ready status is queued once per session and the disconnect
\* status is queued when a session or an attempt is over, before the retry
\* sleep begins: a Ready session has its ready status as the newest of the
\* two kinds, the sleep begins with the disconnect status as the newest
\* queued message, and between two ready statuses of the queue there is a
\* disconnect status.
C16_StatusesAlternate ==
    /\ mpc = "ready" => (LastReadyAt(inq) > 0 /\
          \A k \in (LastReadyAt(inq) + 1)..Len(inq) : inq[k] # DisconnectStatus)
    /\ mpc = "sleep" => (inq # << >> /\ inq[Len(inq)] = DisconnectStatus)
    /\ \A i, j \in 1..Len(inq) :
          (i < j /\ inq[i] = ReadyStatus /\ inq[j] = ReadyStatus) =>
              \E k \in (i + 1)..(j - 1) : inq[k] = DisconnectStatus

\* The ready status of a session was followed by a disconnect status and the
\* ready status of the next session.
C16_ReadyDisconnectReady ==
    /\ rEnd = "none"
    /\ mpc = "ready"
    /\ \E i, k, j \in 1..Len(inq) :
          /\ i < k /\ k < j
          /\ inq[i] = ReadyStatus
          /\ inq[k] = DisconnectStatus
          /\ inq[j] = ReadyStatus

\* C17: between the end of a connection attempt or session and the next
\* connection attempt exactly one 5-second sleep elapses, whatever ended it
\* (none before the first attempt of the run).
C17_OneDelayPerRetry ==
    mpc = "connecting" => waited = (IF inq = << >> THEN 0 ELSE 1)


\* ------------------------------------------------------- the media path
\* C13: a binary audio chunk taken while the upstream connection is not
\* open is dropped: it grows neither queue, nothing is written upstream for
\* it, and the handler goes on with its client still connected.
C13_AudioDroppedWhenDisconnected ==
    (lastIn.kind = "audio" /\ ~lastIn.open) =>
        /\ ~lastIn.queued
        /\ ~lastIn.toClients
        /\ ~lastIn.sent
        /\ lastIn.alive

\* An audio chunk arrived during the retry sleep and nothing was ever
\* written upstream.
C13_AudioDuringRetrySleep ==
    /\ lastIn.kind = "audio"
    /\ ~lastIn.open
    /\ lastIn.alive
    /\ mpc = "sleep"
    /\ upKinds = {}

\* C14: audio chunks, video frames and audio-stream-end markers are written
\* upstream only while the manager is in its Ready state, after the
\* setupComplete of that connection.
C14_MediaOnlyWhenReady ==
    \A k \in upKinds : k[2] = "ready"

\* C15: a client text frame that is not JSON queues one text turn; a frame
\* that is JSON of any other shape than the audio_stream_end object is only
\* logged: nothing is queued or written upstream and the handler goes on
\* with its client still connected.
C15_OtherJsonOnlyLogged ==
    /\ lastIn.kind = "text" => (lastIn.queued /\ ~lastIn.sent /\ lastIn.alive)
    /\ lastIn.kind \in {"json_object", "json_value"} =>
          (~lastIn.queued /\ ~lastIn.toClients /\ ~lastIn.sent /\ lastIn.alive)


\* ------------------------------------------------- frames that go wrong
\* C18: a frame that is not JSON, has an unexpected shape, or whose
\* processing raises something else than connection-closed is skipped: the
\* receive loop ends only on a closed connection or a goAway, the Ready
\* session keeps its handle, the loop keeps reading after a toolCall frame
\* that raised, and the toolCall frame after it is answered as usual.
C18_BadFrameSkipped ==
    /\ rpc = "done" => rEnd \in {"closed", "goAway"}
    /\ (rpc = "done" /\ rEnd = "closed") => ~connOpen
    /\ mpc = "ready" => handle
    /\ (lastTool.seen /\ lastTool.raised /\ connOpen) => rpc = "recv"
    /\ (lastTool.seen /\ lastTool.prevRaised /\ ~lastTool.raised
          /\ lastTool.open /\ ~lastTool.sendFailed
          /\ IdCalls(lastTool.calls) # {}) =>
            /\ Len(lastTool.sent) = 1
            /\ IdsIn(lastTool.sent[1]) = IdsOf(lastTool.calls)

\* A toolCall frame that raised was followed by one that was answered, and
\* the loop is still reading.
C18_AnsweredAfterRaise ==
    /\ lastTool.seen
    /\ lastTool.prevRaised
    /\ ~lastTool.raised
    /\ Len(lastTool.sent) = 1
    /\ rpc = "recv"
    /\ mpc = "ready" /\ handle /\ connOpen


\* -------------------------------------------------------------- the servo
\* current_servo_angle before call i of the last toolCall frame.
AngleBefore(i) == IF i = 1 THEN lastTool.angle0 ELSE lastTool.angles[i - 1]

\* Call i of the last toolCall frame was completed and the servo moved.
Moved(i) ==
    /\ i <= Len(lastTool.angles)
    /\ i <= Len(lastTool.responses)
    /\ lastTool.responses[i].id = lastTool.calls[i].id
    /\ lastTool.responses[i].output.success

\* The degrees and the direction (lower case, << >> for none) of call i.
DegreesOf(i) == lastTool.calls[i].args.degrees.n
DirectionOf(i) ==
    IF lastTool.calls[i].args.direction.k = "str"
    THEN Lower(lastTool.calls[i].args.direction.s) ELSE << >>

\* C19: current_servo_angle stays within 0..180 whatever rotate_servo calls
\* are made: an absolute target is clamped before it is applied (200 gives
\* 180, -50 gives 0, a target within the range is kept).
C19_AngleWithinRange ==
    /\ servoAngle \in 0..180
    /\ lastTool.angle0 \in 0..180
    /\ \A i \in 1..Len(lastTool.angles) :
          /\ lastTool.angles[i] \in 0..180
          /\ (Moved(i) /\ DirectionOf(i) = << >>) =>
                lastTool.angles[i] =
                    (IF DegreesOf(i) > 180 THEN 180
                     ELSE IF DegreesOf(i) < 0 THEN 0 ELSE DegreesOf(i))

\* An absolute rotation to -50 left the angle at 0 and the next one, to 200,
\* left it at 180.
C19_ClampedBothEnds ==
    /\ lastTool.seen
    /\ lastTool.angle0 = 0
    /\ Len(lastTool.calls) = 1
    /\ DirectionOf(1) = << >>
    /\ DegreesOf(1) = 200
    /\ Moved(1)
    /\ servoAngle = 180

\* C20: where no clamping occurs a clockwise rotation by d lowers the angle
\* by d and a counter_clockwise or anticlockwise one raises it by d, so that
\* a rotation by d followed by the rotation by d in the opposite direction
\* brings the angle back to where it was.
C20_RotateRoundTrip ==
    /\ \A i \in 1..Len(lastTool.angles) :
          /\ (Moved(i) /\ DirectionOf(i) = S_clockwise
                /\ AngleBefore(i) - DegreesOf(i) \in 0..180) =>
                    lastTool.angles[i] = AngleBefore(i) - DegreesOf(i)
          /\ (Moved(i) /\ DirectionOf(i) \in {S_counter_clockwise, S_anticlockwise}
                /\ AngleBefore(i) + DegreesOf(i) \in 0..180) =>
                    lastTool.angles[i] = AngleBefore(i) + DegreesOf(i)
    /\ (Len(lastTool.angles) = 2 /\ Moved(1) /\ Moved(2)
          /\ DegreesOf(1) = DegreesOf(2)) =>
          /\ (DirectionOf(1) = S_clockwise
                /\ DirectionOf(2) \in {S_counter_clockwise, S_anticlockwise}
                /\ lastTool.angle0 - DegreesOf(1) \in 0..180) =>
                    lastTool.angles[2] = lastTool.angle0
          /\ (DirectionOf(1) \in {S_counter_clockwise, S_anticlockwise}
                /\ DirectionOf(2) = S_clockwise
                /\ lastTool.angle0 + DegreesOf(1) \in 0..180) =>
                    lastTool.angles[2] = lastTool.angle0

\* From 100 degrees, clockwise by 30 and anticlockwise by 30: 70, then 100.
C20_ThereAndBack ==
    /\ lastTool.seen
    /\ lastTool.angle0 = 100
    /\ Len(lastTool.angles) = 2
    /\ Moved(1) /\ Moved(2)
    /\ DirectionOf(1) = S_clockwise
    /\ DirectionOf(2) = S_anticlockwise
    /\ DegreesOf(1) = 30 /\ DegreesOf(2) = 30
    /\ lastTool.angles = << 70, 100 >>

\* ------------------------------------------------------------------ C21
\* Two names that differ only in letter case and in the separator used
\* (space, hyphen or underscore).
SameMelodyName(a, b) ==
    /\ Len(a) = Len(b)
    /\ \A k \in 1..Len(a) :
          \/ a[k] \in {" ", "-", "_"} /\ b[k] \in {" ", "-", "_"}
          \/ LowerChar(a[k]) = LowerChar(b[k])
MelodyNameOf(i) == lastTool.calls[i].args.melody_name.s

\* C21: a predefined melody is looked up without regard to letter case and
\* to the separator: a name that matches an entry up to case and separator
\* plays that entry, two such spellings play the same entry, and a name that
\* matches no entry gets the failure result that lists the available names
\* and the buzzer is not called.
C21_MelodyLookupNormalized ==
    \A i \in 1..Len(lastTool.melodies) :
        lastTool.calls[i].name = "play_predefined_melody" =>
            /\ \A key \in PREDEFINED_MELODIES :
                  SameMelodyName(MelodyNameOf(i), key) =>
                      /\ lastTool.melodies[i] = key
                      /\ lastTool.gwOf[i] = << "play_melody_impl" >>
            /\ (\A key \in PREDEFINED_MELODIES :
                      ~SameMelodyName(MelodyNameOf(i), key)) =>
                  /\ lastTool.melodies[i] = << >>
                  /\ lastTool.gwOf[i] = << >>
                  /\ lastTool.responses[i].output.hasSuccess
                  /\ ~lastTool.responses[i].output.success
                  /\ lastTool.responses[i].output.msg = "Unknown melody. Available:"
            /\ \A j \in 1..Len(lastTool.melodies) :
                  SameMelodyName(MelodyNameOf(i), MelodyNameOf(j)) =>
                      lastTool.melodies[i] = lastTool.melodies[j]

\* One frame asked for "Twinkle Star" and for "twinkle-star": both played
\* the entry twinkle_star.
C21_TwoSpellingsOneEntry ==
    /\ lastTool.seen
    /\ Len(lastTool.calls) = 2
    /\ MelodyNameOf(1) = <<"T","w","i","n","k","l","e"," ","S","t","a","r">>
    /\ MelodyNameOf(2) = <<"t","w","i","n","k","l","e","-","s","t","a","r">>
    /\ lastTool.melodies =
          << <<"t","w","i","n","k","l","e","_","s","t","a","r">>,
             <<"t","w","i","n","k","l","e","_","s","t","a","r">> >>
    /\ lastTool.gw = << "play_melody_impl", "play_melody_impl" >>

\* ------------------------------------------------------------------ C22
\* C22: a distance measurement that completes answers success true, with
\* status "out_of_range" when the distance is above 400 cm or below 2 cm and
\* "in_range" otherwise; success is false only when an echo edge timed out
\* or the measurement raised.
C22_DistanceStatus ==
    \A i \in 1..Len(lastTool.responses) :
        lastTool.calls[i].name = "get_distance_from_obstacle" =>
            LET out == lastTool.responses[i].output IN
            /\ out.hasSuccess
            /\ out.success = (lastTool.echo.kind = "measured")
            /\ out.success =>
                  /\ Len(out.dist) = 1
                  /\ (out.dist[1] > 40000 \/ out.dist[1] < 200) =>
                        out.status = "out_of_range"
                  /\ (out.dist[1] <= 40000 /\ out.dist[1] >= 200) =>
                        out.status = "in_range"
            /\ ~out.success =>
                  /\ out.msg \in {"Echo timeout HIGH", "Echo timeout LOW", "Dist err"}
                  /\ out.status = ""

\* A measurement of 1.99 cm was answered as a success that is out of range.
C22_TooNearOutOfRange ==
    /\ lastTool.seen
    /\ Len(lastTool.responses) = 1
    /\ lastTool.calls[1].name = "get_distance_from_obstacle"
    /\ lastTool.echo = Measured(1160)
    /\ lastTool.responses[1].output.success
    /\ lastTool.responses[1].output.dist = << 199 >>
    /\ lastTool.responses[1].output.status = "out_of_range"

\* ------------------------------------------------------------------ C23
\* C23: without the credential the Session Manager queues the
\* configuration-error status once and ends: no connection is ever opened
\* and the handle stays null.  The clients still connect and disconnect, the
\* broadcast task still delivers what is queued, and a client's audio chunk
\* is dropped, nothing being written upstream and its handler going on.
C23_NoCredentialNoSession ==
    ~apiKeySet =>
        /\ mpc \in {"start", "ended"}
        /\ ~handle /\ ~connOpen
        /\ fpc = "idle" /\ rpc = "idle"
        /\ \A i \in 1..Len(inq) : inq[i] = ConfigErrorStatus
        /\ Len(inq) + (IF bmsg = ConfigErrorStatus THEN 1 ELSE 0)
              = (IF mpc = "ended" THEN 1 ELSE 0)
        /\ bmsg \in {"none", ConfigErrorStatus}
        /\ bpc # "dead"
        /\ \A c \in bsnap \ bpending :
              cstate[c] = "open" => recvd[c] = << ConfigErrorStatus >>
        /\ (bpc = "get" /\ inq # << >>) => ENABLED BGet
        /\ \A c \in ClientIds :
              /\ cstate[c] = "absent" => ENABLED ClientConnect(c)
              /\ cstate[c] = "open" => c \in clients /\ ENABLED ClientClose(c)
        /\ upKinds = {} /\ upTexts = << >> /\ outq = << >>
        /\ lastIn.kind = "audio" =>
              ~lastIn.sent /\ ~lastIn.queued /\ lastIn.alive

\* Without the credential: the manager has ended, one client got the
\* configuration error, another one has left, and the latest audio chunk was
\* dropped with its handler going on.
C23_ServedWithoutSession ==
    /\ ~apiKeySet
    /\ mpc = "ended"
    /\ lastIn.kind = "audio" /\ lastIn.alive /\ ~lastIn.sent
    /\ \E c, d \in ClientIds :
          /\ recvd[c] = << ConfigErrorStatus >>
          /\ cstate[d] = "gone"

\* ------------------------------------------------------------------ C24
\* C24: while the session is Ready the two sub-flows end together: once one
\* of forward_text_to_gemini and receive_from_gemini has ended, the other one
\* ends too, by the scheduler alone, no client text and no upstream frame
\* being needed for it.
C24_SubflowsEndTogether ==
    (mpc = "ready" /\ (fpc = "done" \/ rpc = "done"))
        ~> (fpc = "done" /\ rpc = "done")

\* ------------------------------------------------------------------ C25
\* C25: a send upstream that fails is captured where it occurs: when the
\* connection was open and the write of a client's audio chunk or of its
\* end-of-audio-turn signal failed, the envelope is dropped (nothing is
\* queued for a retry) and the client's handler goes on.
C25_SendFailureCaptured ==
    (lastIn.kind \in {"audio", "audio_stream_end"}
        /\ lastIn.open /\ ~lastIn.sent) =>
        /\ ~lastIn.queued
        /\ lastIn.alive

\* ------------------------------------------------------------------ C26
\* The gateway calls of the completed calls, one call after the other.
RECURSIVE GatewayCallsFrom(_, _)
GatewayCallsFrom(gwOf, i) ==
    IF i > Len(gwOf) THEN << >> ELSE gwOf[i] \o GatewayCallsFrom(gwOf, i + 1)

\* C26: tool dispatch never has two actuator calls running at once: the
\* calls of one toolCall frame are made one after the other, in the order of
\* the frame, and the calls of a later frame, on the same session or on the
\* next one, start only after those of the earlier frame have returned.
C26_OneDispatchAtATime ==
    /\ dispatching <= 1
    /\ dispatching = 1 => (handle /\ mpc = "ready")
    /\ (lastTool.seen /\ ~lastTool.raised) =>
          lastTool.gw = GatewayCallsFrom(lastTool.gwOf, 1)

\* The second session is dispatching a frame after the first session
\* dispatched one.
C26_SecondSessionDispatching ==
    /\ dispatching = 1
    /\ lastTool.seen
    /\ lastTool.gw # << >>
    /\ Count(inq, ReadyStatus) = 2

\* ------------------------------------------------------------------ C27
\* C27: the blocking hardware calls of a tool invocation leave the event
\* loop free: while they run, the other tasks can take their steps (a
\* client that connects is taken in).
C27_DispatchLeavesLoopFree ==
    dispatching > 0 =>
        /\ LoopFree
        /\ \A c \in ClientIds :
              cstate[c] = "absent" => ENABLED (LoopFree /\ ClientConnect(c))

\* ------------------------------------------------------------------ C28
\* C28: connected_web_clients holds exactly the connections whose handler is
\* running: a connection is added when its handler starts and removed when
\* the handler ends, on a clean close as on an exception.
C28_ConnectedSetIsRunningHandlers ==
    /\ clients = { c \in ClientIds : cstate[c] \in {"open", "closed"} }
    /\ bsnap \subseteq { c \in ClientIds : cstate[c] # "absent" }

\* Both handlers have ended, the latest one on an exception (a JSON frame
\* that is no object), after a broadcast reached a client: the set is empty
\* again.
C28_BothHandlersEnded ==
    /\ lastIn.kind = "json_value"
    /\ cstate[lastIn.client] = "gone"
    /\ \A c \in ClientIds : cstate[c] = "gone"
    /\ clients = {}
    /\ \E c \in ClientIds : recvd[c] # << >>

\* ------------------------------------------------------------------ C29
\* C29: the video loop goes on whatever happens in a round.  A frame is
\* written upstream only when the handle is set and the connection open; a
\* capture or send failure is absorbed and the frame dropped; the error of a
\* stopped source clears picam2, which the next round acquires again, and
\* any other frame error leaves it in place; a failed re-acquisition is
\* followed by the extra wait of 5 seconds.
C29_VideoLoopAbsorbsErrors ==
    /\ vpc = "loop" => ENABLED (\E cam \in BOOLEAN : VideoRound(cam, "ok"))
    /\ lastTick.sent => (lastTick.open /\ lastTick.kind = "ok")
    /\ \A k \in upKinds : k[1] = "video" => k[2] \in {"handshaking", "ready"}
    /\ lastTick.kind \in {"empty", "source_stopped", "frame_error", "send_error"} =>
          /\ ~lastTick.sent
          /\ vpc = "loop"
    /\ lastTick.kind = "source_stopped" =>
          /\ picam2 = "none"
          /\ ENABLED VideoRound(TRUE, "ok")
    /\ lastTick.kind \in {"frame_error", "send_error"} => picam2 = "started"
    /\ lastTick.kind = "setup_failed" =>
          /\ lastTick.wait = 5
          /\ ~lastTick.sent
          /\ picam2 = "none"
    /\ lastTick.kind # "setup_failed" => lastTick.wait < 5

\* A frame went upstream while the session was Ready, the source was lost
\* later, and the latest round failed to acquire it again and waited.
C29_ReacquisitionFailed ==
    /\ << "video", "ready" >> \in upKinds
    /\ lastTick.kind = "setup_failed"
    /\ lastTick.wait = 5
    /\ picam2 = "none"
    /\ vpc = "loop"

\* ------------------------------------------------------------------ C30
\* C30: the transcription accumulator is appended to on each fragment and is
\* reset when a turn completes (a serverContent frame with turnComplete,
\* with or without a fragment in it), when it holds more than 200
\* characters, and when a new session becomes Ready; between resets it is
\* the concatenation of the fragments since the last reset.  Step by step:
\* a frame with turnComplete leaves nothing but its own fragment, a fragment
\* arriving on more than 200 characters starts afresh, any other fragment
\* is appended, a frame with neither changes nothing, and the ready step
\* empties the accumulator.
C30_AccumulatorResets ==
    [][ /\ \A sc \in TranscriptContents :
              RecvServerContent(sc) =>
                  accumulated_transcription_for_oled' =
                      (IF sc.turnComplete
                       THEN (IF sc.trans THEN << sc.frag >> ELSE << >>)
                       ELSE IF sc.trans
                          THEN (IF AccLength(accumulated_transcription_for_oled) > 200
                                THEN << sc.frag >>
                                ELSE Append(accumulated_transcription_for_oled,
                                            sc.frag))
                       ELSE accumulated_transcription_for_oled)
        /\ MSetupComplete => accumulated_transcription_for_oled' = << >>
      ]_vars

\* ------------------------------------------------------------------ C31
\* C31: every result written upstream, whatever the tool and the outcome,
\* has an outcome record with a boolean success flag and a message; the
\* results of play_melody and play_predefined_melody included.
C31_ResultsCarrySuccessFlag ==
    \A k \in 1..Len(lastTool.sent) :
        \A j \in 1..Len(lastTool.sent[k]) :
            /\ lastTool.sent[k][j].output.hasSuccess
            /\ lastTool.sent[k][j].output.msg # ""

\* ------------------------------------------------------------------ C32
\* C32: the responses of a toolCall frame are written only on the connection
\* that delivered the frame: while the dispatch of a frame runs the session
\* is not replaced (the handle stays set, the manager stays in its Ready
\* state and no further session becomes Ready), the responses are written
\* only when that connection is open, and when it is not they are dropped:
\* nothing is written and nothing is queued for a later attempt.
C32_ResponsesOnSameConnection ==
    /\ [](lastTool.sent # << >> => lastTool.open)
    /\ [][ dispatching > 0 =>
              /\ handle' /\ mpc' = "ready"
              /\ Count(inq', ReadyStatus) = Count(inq, ReadyStatus) ]_vars
    /\ [][ (dispatching' < dispatching /\ ~(handle /\ connOpen)) =>
              /\ lastTool'.sent = << >>
              /\ outq' = outq /\ upTexts' = upTexts /\ upKinds' = upKinds ]_vars

\* The connection closed while a frame was being dispatched: its responses
\* were dropped, and the next session is Ready without them being written.
C32_BatchDroppedThenNewSession ==
    /\ lastTool.seen
    /\ ~lastTool.open
    /\ lastTool.responses # << >>
    /\ lastTool.sent = << >>
    /\ mpc = "ready"
    /\ Count(inq, ReadyStatus) = 2
    /\ dispatching = 0

\* ------------------------------------------------------------------ C33
\* The places of the completed calls of the last frame that carry no id and
\* name a tool of the gateway with arguments it can use.
NoIdGatewayCalls ==
    {i \in 1..Len(lastTool.gwOf) :
        /\ lastTool.calls[i].id = 0
        /\ \/ IsValidLedCall(lastTool.calls[i])
           \/ lastTool.calls[i].name = "get_distance_from_obstacle"}

\* C33: a call of a known tool that carries no id is still executed against
\* the gateway (its gateway call is made), and no result of it is in the
\* batch: the batch holds one result per id-bearing call and no result
\* without an id; when no call of the frame carries an id, nothing is written
\* upstream for the frame.
C33_NoIdExecutedNotAnswered ==
    lastTool.seen =>
        /\ \A i \in NoIdGatewayCalls :
             lastTool.gwOf[i] =
                IF lastTool.calls[i].name = "set_led_state"
                THEN <<"set_led_state_impl">>
                ELSE <<"get_distance_from_obstacle_impl">>
        /\ \A k \in 1..Len(lastTool.responses) : lastTool.responses[k].id # 0
        /\ ~lastTool.raised =>
             Len(lastTool.responses) = Cardinality(IdCalls(lastTool.calls))
        /\ \A m \in 1..Len(lastTool.sent) :
             \A k \in 1..Len(lastTool.sent[m]) : lastTool.sent[m][k].id # 0
        /\ IdCalls(lastTool.calls) = {} => lastTool.sent = << >>

\* A frame of two calls on an open connection: the first, a valid
\* set_led_state without id, was executed; the one message written upstream
\* holds the result of the second call only.
C33_NoIdLedExecutedOtherAnswered ==
    /\ lastTool.seen /\ lastTool.open /\ ~lastTool.raised
    /\ Len(lastTool.calls) = 2
    /\ lastTool.calls[1].id = 0 /\ IsValidLedCall(lastTool.calls[1])
    /\ lastTool.calls[2].id # 0
    /\ lastTool.gwOf[1] = <<"set_led_state_impl">>
    /\ Len(lastTool.sent) = 1
    /\ Len(lastTool.sent[1]) = 1
    /\ lastTool.sent[1][1].id = lastTool.calls[2].id

\* ------------------------------------------------------------------ C34
\* C34: a message leaves gemini_to_web_queue only from its head and only when
\* the broadcast task is at its get, so each message is taken once and in
\* queue order; the snapshot is the set of clients connected at that moment
\* and does not change until the next message is taken; with an empty
\* snapshot the message is dropped and the task is back at its get; a client
\* receives a message only while it is in the snapshot, the message being
\* the one taken last, appended after what it received before: a client that
\* connects after the take never receives the message.
C34_DeliveredToSnapshotOnly ==
    /\ [][ Len(inq') < Len(inq) =>
              /\ bpc = "get"
              /\ inq' = Tail(inq)
              /\ bmsg' = Head(inq)
              /\ bsnap' = clients
              /\ recvd' = recvd
              /\ clients = {} => bpc' = "get" ]_vars
    /\ [][ (bsnap' # bsnap \/ bmsg' # bmsg) => Len(inq') < Len(inq) ]_vars
    /\ [][ \A c \in ClientIds :
              recvd'[c] # recvd[c] =>
                /\ c \in bsnap
                /\ recvd'[c] = Append(recvd[c], bmsg)
                /\ inq' = inq ]_vars
    /\ [](bpc = "get" => bpending = {})
    /\ [](bdelivered \subseteq bsnap)

\* The "[Gemini session ready]" status was taken while no client was
\* connected and dropped; a client that connected afterwards has received
\* nothing, and the queue is empty.
C34_ReadyDroppedBeforeClient ==
    /\ bmsg = ReadyStatus
    /\ bsnap = {}
    /\ bpc = "get"
    /\ inq = << >>
    /\ \E c \in ClientIds : cstate[c] = "open" /\ recvd[c] = << >>

\* ------------------------------------------------------------------ C35
\* The audio_data messages, and what a sequence of messages holds of them.
AudioMsgs == { AudioMsg(i) : i \in 1..(MaxAudioParts + 1) }
AudioPlaces(q) == {i \in 1..Len(q) : q[i] \in AudioMsgs}
PlacesOf(q, t) == {i \in 1..Len(q) : q[i] = t}

\* What one serverContent frame sc has queued, given the queue before and
\* after: no audio_data when it has no audio part, else exactly one, that of
\* its last audio part; with a fragment too, one transcription status,
\* queued after the audio_data.
QueuedForContent(sc, before, after) ==
    LET new == SubSeq(after, Len(before) + 1, Len(after)) IN
    /\ SubSeq(after, 1, Len(before)) = before
    /\ Cardinality(AudioPlaces(new)) = IF sc.audioParts > 0 THEN 1 ELSE 0
    /\ sc.audioParts > 0 =>
          /\ PlacesOf(new, AudioMsg(sc.audioParts)) # {}
          /\ sc.trans =>
                /\ Cardinality(PlacesOf(new, "[T]")) = 1
                /\ \A i \in AudioPlaces(new) :
                      \A j \in PlacesOf(new, "[T]") : i < j

\* C35: a serverContent frame queues at most one audio_data message for the
\* clients, that of its last audio part, whatever else the frame carries;
\* when it carries a transcription fragment too, the audio_data message is
\* queued before the transcription status.
C35_LastAudioPartOnly ==
    [][ \A sc \in AllContents :
          RecvServerContent(sc) => QueuedForContent(sc, inq, inq') ]_vars

\* One frame was received, with two audio parts and a fragment: the queue
\* ends with the audio_data of the second part and then the transcription
\* status, and holds no audio_data of the first part.
C35_SecondPartThenTranscript ==
    /\ frames = MaxFrames - 1
    /\ Len(inq) >= 2
    /\ inq[Len(inq) - 1] = AudioMsg(2)
    /\ inq[Len(inq)] = "[T]"
    /\ AudioPlaces(inq) = {Len(inq) - 1}

====
